---- MODULE Spec2Model ----
(***************************************************************************)
(* Model of the go2_bridge process of zhgrui/AgenticHack: the movement     *)
(* heartbeat thread (go2_bridge/movement_loop.py), the ZMQ REQ/REP command *)
(* thread (go2_bridge/command_handler.py), the JSON helpers                *)
(* (go2_bridge/protocol.py) and the robot handle (go2_bridge/robot.py).    *)
(*                                                                         *)
(* Threads.  "move-loop" runs MovementLoop._loop, "cmd-handler" runs       *)
(* CommandHandler._loop.  Every step of a thread is one action; the steps  *)
(* of the two threads interleave freely.  The statements inside a          *)
(* `with self._lock:` block are separate steps, the first one taking the   *)
(* lock and the last one releasing it, so that mutual exclusion is the     *)
(* lock's doing and not the model's.                                       *)
(*                                                                         *)
(* Time.  clock is time.monotonic() in milliseconds and advances in steps  *)
(* of Quantum (half a sleep interval).  Time passes only while the         *)
(* movement thread is inside time.sleep(interval) (or has terminated): the *)
(* body of one loop iteration, including the SDK call made by robot.move,  *)
(* is taken to run in negligible time, and sleep to last exactly interval. *)
(* The command thread may be at any point of a handler when time passes.   *)
(*                                                                         *)
(* Specifications.  Spec is the bridge with both threads.  SpecDispatcher  *)
(* is the command thread alone over the full set of requests, the clock    *)
(* standing still.  SpecNats is the NATS controller                        *)
(* (apps/nats_controller/server.py) with one Go2NATSClient                 *)
(* (apps/nats_controller/client.py) and a peer publishing raw messages.    *)
(* SpecCodec applies make_request and parse_request of protocol.py to      *)
(* bounded commands, parameters and raw texts.  SpecMain is the process of *)
(* go2_bridge/__main__.py with its three threads and the signal handler's  *)
(* shutdown sequence.  SpecRelay is camera_relay of go2_webapp/__main__.py *)
(* with its WebSocket listeners.  SpecBlocked is Spec with requests whose  *)
(* handler waits inside the SDK; SpecSlow is Spec with a time.sleep that   *)
(* may return late.  SpecObstacle is Go2Robot._enable_obstacle_avoidance   *)
(* of robot.py with its polls of the SDK's switch.  SpecCtl is the         *)
(* GO2Controller of robot_controller.py, a ZMQ REQ client called by two    *)
(* threads.  SpecCsm is the ControlStateMachine and the run() loop of      *)
(* apps/controlLogic/control_logic.py.                                     *)
(***************************************************************************)
EXTENDS Integers, Sequences, FiniteSets, TLC

\* go2_bridge/config.py
MOVE_HZ == 20
MOVE_TIMEOUT_MS == 250
OBSTACLE_AVOIDANCE == TRUE

\* MovementLoop._loop, lines 58-59, in milliseconds instead of seconds
interval == 1000 \div MOVE_HZ
timeout_s == MOVE_TIMEOUT_MS

\* granularity of the clock: two clock values per sleep interval
Quantum == interval \div 2

\* bounds of the model
MaxQuanta == 15
MaxRequests == 2

MaxTime == MaxQuanta * Quantum

\* the horizon of the runs in which time.sleep may return late
MaxSlowQuanta == 24
MaxSlowTime == MaxSlowQuanta * Quantum

VARIABLES
    clock,          \* time.monotonic(), ms
    vx, vy, vyaw,   \* MovementLoop._vx, _vy, _vyaw
    last_cmd_time,  \* MovementLoop._last_cmd_time
    lock,           \* MovementLoop._lock: "free", or the thread holding it
    wr,             \* history: which call last wrote each of the four fields
    wd_pc,          \* position of the move-loop thread
    snap,           \* its locals vx, vy, vyaw, last_t (and who wrote them)
    sent_zero,      \* its local sent_zero
    wake_at,        \* when its time.sleep(interval) returns
    cmd_pc,         \* position of the cmd-handler thread
    raw,            \* the request being handled
    args,           \* the coerced (vx, vy, vyaw) of _handle_move
    response,       \* the response being built
    nrecv, nsent,   \* history: requests received, replies sent
    lastMove,       \* history: the last Robot.move call
    hist,           \* history: counters and times the properties refer to
    robot,          \* Robot: obstacle_avoidance_enabled, _speed_level, _light_on
    nats,           \* the NATS command server and one client of it
    codec,          \* a caller of the codec: make_request, parse_request
    sd,             \* the bridge process seen from main: threads, shutdown
    relay,          \* go2_webapp: camera_relay and its WebSocket clients
    oa,             \* a call of Robot.set_obstacle_avoidance, step by step
    ctl,            \* GO2Controller and the threads calling it
    csm             \* apps/controlLogic: ControlStateMachine and run()

vars == <<clock, vx, vy, vyaw, last_cmd_time, lock, wr, wd_pc, snap, sent_zero,
          wake_at, cmd_pc, raw, args, response, nrecv, nsent, lastMove, hist,
          robot, nats, codec, sd, relay, oa, ctl, csm>>

\* the state of the processes other than go2_bridge
apps == <<nats, codec, sd, relay, oa, ctl, csm>>

\* the variables of the go2_bridge process
bridge ==
    <<clock, vx, vy, vyaw, last_cmd_time, lock, wr, wd_pc, snap, sent_zero,
      wake_at, cmd_pc, raw, args, response, nrecv, nsent, lastMove, hist, robot>>

\* what a step of the NATS controller, and a step of a caller of the codec,
\* leaves alone
exceptNats == <<bridge, codec, sd, relay, oa, ctl, csm>>
exceptCodec == <<bridge, nats, sd, relay, oa, ctl, csm>>

\* what a step of main and of the three loops, taken as a whole, leaves alone
exceptMain == <<bridge, nats, codec, relay, oa, ctl, csm>>

\* what a step of the web app leaves alone
exceptRelay == <<bridge, nats, codec, sd, oa, ctl, csm>>

shared == <<vx, vy, vyaw, last_cmd_time, lock, wr>>
wdLocals == <<wd_pc, snap, sent_zero, wake_at>>
cmdLocals == <<cmd_pc, raw, args, response>>

----------------------------------------------------------------------------
\* protocol.py: requests as JSON texts

\* JSON numbers and a JSON object used as params
JNum(n) == [t |-> "num", n |-> n]
JMap(m) == [t |-> "map", m |-> m]

\* JSON strings, booleans, arrays and null as json.loads returns them
JStr(s) == [t |-> "str", s |-> s]
JBool(b) == [t |-> "bool", b |-> b]
JList(l) == [t |-> "list", l |-> l]
None == [t |-> "null"]

\* the velocity triples a caller sends
Velocities == {<<0, 0, 0>>, <<1, 0, 2>>}

MoveParams(v) == JMap([vx |-> JNum(v[1]), vy |-> JNum(v[2]), vyaw |-> JNum(v[3])])

\* the texts a peer may put on the REQ socket: b"garbage", b"[]", JSON objects
RawRequests ==
    {[kind |-> "notjson"], [kind |-> "array"]}
    \cup {[kind |-> "object", obj |-> [cmd |-> "move", params |-> MoveParams(v)]] : v \in Velocities}
    \cup {[kind |-> "object", obj |-> [cmd |-> "move", params |-> JNum(5)]],
          [kind |-> "object", obj |-> [cmd |-> "stop"]],
          [kind |-> "object", obj |-> [cmd |-> "frobnicate"]]}

\* a JSON object with a cmd, and one with a cmd and params
Request(cmd) == [kind |-> "object", obj |-> [cmd |-> cmd]]
RequestWith(cmd, params) == [kind |-> "object", obj |-> [cmd |-> cmd, params |-> params]]

\* the levels a caller sends in a speed_level command
SpeedLevels == {-1, 0, 1, 2, 3, 4, 99}

\* every kind of text a peer may put on the REQ socket: the texts of
\* RawRequests and, for each command, well-formed and ill-formed params
AllRawRequests ==
    RawRequests
    \cup {Request("move"),
          RequestWith("move", None),
          RequestWith("move", JMap([vx |-> JNum(1)])),
          RequestWith("move", JMap([vx |-> JStr("2"), vyaw |-> JBool(TRUE)])),
          RequestWith("move", JMap([vx |-> JNum(1), vy |-> JStr("abc")])),
          RequestWith("move", JMap([vx |-> JNum(1), vy |-> JNum(0), vyaw |-> None]))}
    \cup {Request("action"),
          RequestWith("action", JNum(5)),
          RequestWith("action", JMap([name |-> JStr("sit")])),
          RequestWith("action", JMap([name |-> JStr("hand_stand")])),
          RequestWith("action", JMap([name |-> JStr("moonwalk")])),
          RequestWith("action", JMap([name |-> JNum(5)])),
          RequestWith("action", JMap([name |-> None])),
          RequestWith("action", JMap([name |-> JList(<<>>)]))}
    \cup {Request("obstacle_avoidance"),
          RequestWith("obstacle_avoidance", JMap([enabled |-> JBool(TRUE)])),
          RequestWith("obstacle_avoidance", JMap([enabled |-> JBool(FALSE)]))}
    \cup {RequestWith("speed_level", JMap([level |-> JNum(l)])) : l \in SpeedLevels}
    \cup {Request("speed_level"),
          RequestWith("speed_level", JMap([level |-> JStr("2")])),
          RequestWith("speed_level", JMap([level |-> JStr("fast")]))}
    \cup {Request("light"),
          RequestWith("light", JMap([on |-> JBool(TRUE)])),
          RequestWith("light", JMap([on |-> JBool(FALSE)]))}
    \cup {Request("list_actions"), Request("status"),
          Request("get_camera_frame"),
          [kind |-> "object", obj |-> [params |-> JMap(<<>>)]]}

\* dict.get(key, default)
Get(d, key, default) == IF key \in DOMAIN d THEN d[key] ELSE default

\* make_response(ok, msg, data), lines 38-40, and its use with data = None
make_response_data(ok, msg, data) == [ok |-> ok, msg |-> msg, data |-> data]
make_response(ok, msg) == make_response_data(ok, msg, None)

\* a tuple, which a caller may put into params and json.loads never returns
PyTuple(l) == [t |-> "tuple", l |-> l]

\* json.dumps accepts the value: bytes are not JSON serializable
RECURSIVE Serializable(_)
Serializable(x) ==
    CASE x.t = "bytes" -> FALSE
      [] x.t \in {"list", "tuple"} -> \A i \in DOMAIN x.l : Serializable(x.l[i])
      [] x.t = "map" -> \A k \in DOMAIN x.m : Serializable(x.m[k])
      [] OTHER -> TRUE

\* json.dumps of a value, the text being named by what json.loads returns
\* for it: a tuple is written as an array, which is read back as a list
RECURSIVE json_dumps(_)
json_dumps(x) ==
    CASE x.t \in {"list", "tuple"} -> JList([i \in DOMAIN x.l |-> json_dumps(x.l[i])])
      [] x.t = "map" -> JMap([k \in DOMAIN x.m |-> json_dumps(x.m[k])])
      [] OTHER -> x

\* str(exc) of the TypeError of json.dumps
NotSerializableText == "Object of type bytes is not JSON serializable"

\* make_request writing the command under the key "command"
make_requestCommandKey(cmd, params) ==
    [raised |-> FALSE,
     text |-> [kind |-> "object", obj |-> [command |-> cmd, params |-> json_dumps(params)]]]

\* make_request(cmd, params), lines 30-35: params is left out of the message
\* when it is None
make_request(cmd, params) ==
    IF params.t = "null"
    THEN [raised |-> FALSE, text |-> [kind |-> "object", obj |-> [cmd |-> cmd]]]
    ELSE IF ~Serializable(params)
    THEN [raised |-> TRUE, exc |-> NotSerializableText]
    ELSE [raised |-> FALSE,
          text |-> [kind |-> "object",
                    obj |-> [cmd |-> cmd, params |-> json_dumps(params)]]]

\* the locals of CommandHandler._loop before raw is received
NoRequest == [kind |-> "none"]
NoResponse == make_response(TRUE, "")

\* str(exc) of the exceptions of parse_request: json.JSONDecodeError for
\* b"garbage", AttributeError for b"[]"
JSONDecodeErrorText == "Expecting value: line 1 column 1 (char 0)"
ListAttributeErrorText == "'list' object has no attribute 'get'"

\* parse_request that hands on defaults instead of raising
parse_requestLenient(r) ==
    [raised |-> FALSE,
     cmd |-> IF r.kind = "object" THEN Get(r.obj, "cmd", "") ELSE "",
     params |-> IF r.kind = "object" THEN Get(r.obj, "params", JMap(<<>>))
                                     ELSE JMap(<<>>)]

\* parse_request: json.loads raises on a text that is not JSON, obj.get raises
\* on a JSON value that is not an object; otherwise (cmd, params) with defaults
parse_request(r) ==
    CASE r.kind = "notjson" -> [raised |-> TRUE, exc |-> JSONDecodeErrorText]
      [] r.kind = "array" -> [raised |-> TRUE, exc |-> ListAttributeErrorText]
      [] OTHER ->
           [raised |-> FALSE, cmd |-> Get(r.obj, "cmd", ""),
            params |-> Get(r.obj, "params", JMap(<<>>))]

\* ACTION_REGISTRY, lines 9-27, in insertion order: name -> (method_name,
\* args); kwargs is {} in every entry
ACTION_REGISTRY ==
    << [name |-> "stand_up", method |-> "StandUp", args |-> <<>>],
       [name |-> "stand_down", method |-> "StandDown", args |-> <<>>],
       [name |-> "balance_stand", method |-> "BalanceStand", args |-> <<>>],
       [name |-> "recovery_stand", method |-> "RecoveryStand", args |-> <<>>],
       [name |-> "sit", method |-> "Sit", args |-> <<>>],
       [name |-> "hello", method |-> "Hello", args |-> <<>>],
       [name |-> "stretch", method |-> "Stretch", args |-> <<>>],
       [name |-> "dance1", method |-> "Dance1", args |-> <<>>],
       [name |-> "dance2", method |-> "Dance2", args |-> <<>>],
       [name |-> "heart", method |-> "Heart", args |-> <<>>],
       [name |-> "front_flip", method |-> "FrontFlip", args |-> <<>>],
       [name |-> "front_jump", method |-> "FrontJump", args |-> <<>>],
       [name |-> "back_flip", method |-> "BackFlip", args |-> <<>>],
       [name |-> "left_flip", method |-> "LeftFlip", args |-> <<>>],
       [name |-> "hand_stand", method |-> "HandStand", args |-> <<TRUE>>],
       [name |-> "damp", method |-> "Damp", args |-> <<>>],
       [name |-> "stop_move", method |-> "StopMove", args |-> <<>>] >>

\* list(ACTION_REGISTRY.keys()) and the keys as a set
RegistryKeys == [i \in DOMAIN ACTION_REGISTRY |-> ACTION_REGISTRY[i].name]
RegisteredNames == {ACTION_REGISTRY[i].name : i \in DOMAIN ACTION_REGISTRY}

\* ACTION_REGISTRY[name] for a registered name
RegistryEntry(name) ==
    ACTION_REGISTRY[CHOOSE i \in DOMAIN ACTION_REGISTRY : ACTION_REGISTRY[i].name = name]

----------------------------------------------------------------------------
\* Python's built-in conversions on the values json.loads returns

\* type(x).__name__
TypeName(x) ==
    CASE x.t = "num" -> "int"
      [] x.t = "str" -> "str"
      [] x.t = "bool" -> "bool"
      [] x.t = "list" -> "list"
      [] x.t = "map" -> "dict"
      [] x.t = "null" -> "NoneType"

\* str(exc) of the AttributeError of x.get(...) on a value that is no dict
NoGetText(x) == "'" \o TypeName(x) \o "' object has no attribute 'get'"

\* the strings float() and int() accept, among the strings of the model
Numerals == ("0" :> 0) @@ ("2" :> 2)

\* float(x) and int(x) return for numbers, booleans and numeral strings and
\* raise for every other value
CanFloat(x) == x.t \in {"num", "bool"} \/ (x.t = "str" /\ x.s \in DOMAIN Numerals)

\* float(x) where it returns
float(x) ==
    CASE x.t = "num" -> x.n
      [] x.t = "bool" -> IF x.b THEN 1 ELSE 0
      [] x.t = "str" -> Numerals[x.s]

\* str(exc) of the ValueError or TypeError of float(x)
FloatErrorText(x) ==
    IF x.t = "str" THEN "could not convert string to float: '" \o x.s \o "'"
    ELSE "float() argument must be a string or a real number, not '"
         \o TypeName(x) \o "'"

\* int(x) where it returns
int(x) ==
    CASE x.t = "num" -> x.n
      [] x.t = "bool" -> IF x.b THEN 1 ELSE 0
      [] x.t = "str" -> Numerals[x.s]

\* str(exc) of the ValueError or TypeError of int(x)
IntErrorText(x) ==
    IF x.t = "str" THEN "invalid literal for int() with base 10: '" \o x.s \o "'"
    ELSE "int() argument must be a string, a bytes-like object or a real number, not '"
         \o TypeName(x) \o "'"

\* bool(x)
bool(x) ==
    CASE x.t = "num" -> x.n # 0
      [] x.t = "bool" -> x.b
      [] x.t = "str" -> x.s # ""
      [] x.t = "list" -> x.l # <<>>
      [] x.t = "map" -> DOMAIN x.m # {}
      [] x.t = "null" -> FALSE

\* str(x) as an f-string formats a string, a number, a boolean, None and an
\* empty list
str(x) ==
    CASE x.t = "str" -> x.s
      [] x.t = "num" -> ToString(x.n)
      [] x.t = "bool" -> IF x.b THEN "True" ELSE "False"
      [] x.t = "null" -> "None"
      [] x.t = "list" /\ x.l = <<>> -> "[]"

\* dict.get(key) hashes the key: a list or a dict raises TypeError
Hashable(x) == x.t \notin {"list", "map"}
UnhashableText(x) == "unhashable type: '" \o TypeName(x) \o "'"

\* min and max of two integers
min(a, b) == IF a < b THEN a ELSE b
max(a, b) == IF a > b THEN a ELSE b

----------------------------------------------------------------------------
\* apps/nats_controller: the values of server.py and client.py

\* bytes, as bridge.get_camera_frame returns them and nc.publish carries them
JBytes(b) == [t |-> "bytes", b |-> b]

\* the truth value of an object in `if x` and `if not x`
Truthy(x) == IF x.t = "bytes" THEN x.b # <<>> ELSE bool(x)

\* server.py, line 23: DEFAULT_CAMERA_SUBJECT
DEFAULT_CAMERA_SUBJECT == "go2.camera"

\* the request ids str(uuid.uuid4()) gives the client, one per call
Uuid == <<"u1", "u2", "u3", "u4">>

\* client.py, line 100: the inbox of a call
Inbox(request_id) == "_INBOX." \o request_id

\* a message on the command subject: its payload and its reply subject
NatsMsg(data, reply) == [data |-> data, reply |-> reply]
NoMsg == NatsMsg(NoRequest, "")

\* a JSON object with cmd, id and params
Command(cmd, id, params) ==
    [kind |-> "object", obj |-> [cmd |-> cmd, id |-> id, params |-> params]]

\* client.py, lines 95-97: the payload of _send_command(cmd, params)
ClientPayload(cmd, request_id, params) ==
    IF Truthy(params)
    THEN Command(cmd, JStr(request_id), params)
    ELSE [kind |-> "object", obj |-> [cmd |-> cmd, id |-> JStr(request_id)]]

\* the calls a user of Go2NATSClient makes: status(), move(1, 0, 2) and
\* get_camera_frame(), whose params are those of ClientParams; client.py,
\* lines 137, 168, 230
ClientCalls ==
    {[cmd |-> "status", params |-> None],
     [cmd |-> "move", params |-> MoveParams(<<1, 0, 2>>)],
     [cmd |-> "get_camera_frame", params |-> None]}

\* the messages other peers publish on the command subject: texts that are
\* no JSON object, commands with and without id, params and reply subject
PeerMessages ==
    {NatsMsg([kind |-> "notjson"], "_INBOX.p"),
     NatsMsg([kind |-> "array"], "_INBOX.p"),
     NatsMsg(Request("stop"), "_INBOX.p"),
     NatsMsg(Request("stop"), ""),
     NatsMsg(Command("get_camera_frame", JStr("p1"), JMap(<<>>)), "_INBOX.p"),
     NatsMsg(Command("get_camera_frame", JStr("p1"), JList(<<JNum(1)>>)), "_INBOX.p"),
     NatsMsg(Request("get_camera_frame"), "")}

\* what bridge.get_camera_frame returns: a JPEG, b"" from the ZMQ fallback,
\* or None on its timeout
CameraResults == {JBytes(<<255, 216, 255>>), JBytes(<<>>), None}

\* what bridge.send_command returns, server.py, lines 71-80: a response of
\* the bridge, or the dict of line 75 or of line 77
BridgeTimeout == [ok |-> FALSE, msg |-> "Timeout waiting for bridge response"]
BridgeReplies ==
    {make_response(TRUE, "stopped"),
     make_response(TRUE, "velocity updated"),
     make_response_data(TRUE, "ok", [obstacle_avoidance |-> OBSTACLE_AVOIDANCE,
                                      speed_level |-> 1, light_on |-> FALSE]),
     BridgeTimeout,
     [ok |-> FALSE, msg |-> "Error: Context was terminated"]}

\* client.py, line 126
ClientTimeoutResult == [ok |-> FALSE, msg |-> "Timeout waiting for response"]

\* the server before its first message and the client before its first call.
\* server: pc, msg (the message handled), request_id, frame_subject, jpeg,
\* response, published (what the server has published for msg), captures
\* and forwards (the calls of bridge.get_camera_frame and of
\* bridge.send_command for msg), n (messages received).
\* client: state, calls made, request_id, result, dropped (replies on its
\* inbox that on_response ignored); of its get_camera_frame call: gcf (the
\* position inside the call), fsub (the subject subscribed to, "" for none),
\* frame (the result of frame_future) and ret (what the call returned).
\* queue: the command subject; inbox and fbox: the messages delivered to the
\* client's inbox subscription and to its frame subscription
NatsInit ==
    [pc |-> "idle", msg |-> NoMsg, request_id |-> None, frame_subject |-> None,
     jpeg |-> None, response |-> NoResponse, published |-> <<>>, captures |-> 0,
     n |-> 0, exc |-> "", forwards |-> 0,
     queue |-> <<>>, inbox |-> <<>>, fbox |-> <<>>,
     client |-> [state |-> "idle", calls |-> 0, request_id |-> "",
                 cmd |-> "", result |-> NoResponse, dropped |-> 0,
                 gcf |-> "idle", fsub |-> "", frame |-> None, ret |-> None]]

----------------------------------------------------------------------------
\* History: the watchdog command (set_velocity or stop) that completed last:
\* its kind, the request it belongs to, its completion time and its velocity
NoCommand == [epi |-> "none", by |-> 0, at |-> 0, v |-> <<0, 0, 0>>]

\* the (cmd, params) pairs a caller hands to make_request: params of the
\* commands, nested values, no params, and values json.loads never returns
CodecCmds == {"move", "stop", "action", "light", ""}
CodecParams ==
    {None,
     JMap(<<>>),
     MoveParams(<<1, 0, 2>>),
     JMap([name |-> JStr("sit")]),
     JMap([on |-> JBool(TRUE)]),
     JMap([level |-> JNum(2), note |-> None]),
     JMap([path |-> JList(<<JNum(1), JMap([x |-> JStr("a")])>>)]),
     JMap([path |-> PyTuple(<<JNum(1), JNum(2)>>)]),
     JMap([path |-> JList(<<PyTuple(<<>>)>>)]),
     JMap([frame |-> JBytes(<<255, 216>>)])}

\* the texts a caller hands to parse_request without having made them with
\* make_request
CodecTexts ==
    AllRawRequests
    \cup {[kind |-> "object", obj |-> <<>>],
          RequestWith("stop", JNum(5)),
          RequestWith("stop", JList(<<>>)),
          RequestWith("move", JStr("fast"))}

\* what one robot.get_image() gives the camera thread: an exception, a
\* non-zero code, code 0 without data, code 0 with a JPEG
CameraOutcomes == {"raise", "code", "nodata", "frame"}

\* main, lines 22-41 and 57-61: the three threads are started, all three
\* _running flags are set, main is in signal.pause().  main, cmd, cam and mv
\* are the positions of the four threads; signals counts the signals
\* delivered; received and sent count the requests and the responses of the
\* REP socket; term is set once ctx.term() has been called; closed is the set
\* of sockets closed; atZero is that set as it was when Robot.shutdown called
\* Move(0, 0, 0); lateCalls and lateMoves count the capability calls and the
\* robot.move calls the threads have made since; tick and published are the outcome of the camera thread's
\* current get_image and the multipart messages it sent after it
SdInit ==
    [main |-> "pause", signals |-> 0, shutdown_event |-> FALSE,
     handler_running |-> TRUE, camera_running |-> TRUE, movement_running |-> TRUE,
     cmd |-> "top", cam |-> "top", mv |-> "top",
     received |-> 0, sent |-> 0,
     term |-> FALSE, zero |-> "none", released |-> FALSE,
     closed |-> {}, atZero |-> {}, lateCalls |-> 0, lateMoves |-> 0,
     tick |-> "none", published |-> <<>>]

\* the WebSocket connections a browser may open on /ws/camera
Listeners == {"a", "b"}

\* the web app at startup, go2_webapp/__main__.py, lines 72 and 127-131:
\* camera_clients is empty and camera_relay waits for its first frame.  conn
\* is the state of each connection, buf the frames written to a connection
\* whose peer does not read, got the frames a peer has read, pending the
\* rest of list(camera_clients) in the for loop, dead the list of line 89,
\* dropped the connections camera_relay has discarded
RelayInit ==
    [pc |-> "recv", camera_clients |-> {}, frames |-> 0,
     conn |-> [l \in Listeners |-> "none"],
     buf |-> [l \in Listeners |-> 0],
     got |-> [l \in Listeners |-> 0],
     pending |-> <<>>, dead |-> <<>>, dropped |-> {}]

\* Robot._enable_obstacle_avoidance, line 87: for _ in range(50)
SWITCH_POLLS == 50

\* no call of Robot.set_obstacle_avoidance is under way.  pc is the position
\* inside the call; polls counts the SwitchGet calls of the current (or the
\* last) _enable_obstacle_avoidance and confirmed tells whether one of them
\* has returned on; assigned is set once line 100 has assigned
\* obstacle_avoidance_enabled = True; client is the SDK client the last
\* Robot.move has called
OaInit ==
    [pc |-> "idle", polls |-> 0, confirmed |-> FALSE, assigned |-> FALSE,
     client |-> "none"]

\* the threads that call the GO2Controller
CtlThreads == {"t1", "t2"}

\* GO2Controller.__init__, robot_controller.py, lines 18-24: no context, no
\* socket, not connected, the lock free.  pc and kind are the position of
\* each thread inside _bridge_cmd and the call it is making; calls counts
\* the calls made; reconnects counts the calls of _reconnect and busySends
\* the send_json calls on a socket whose last request has no reply yet
CtlInit ==
    [ctx |-> "none", sock |-> "none", connected |-> FALSE, lock |-> "free",
     pc |-> [t \in CtlThreads |-> "idle"],
     kind |-> [t \in CtlThreads |-> "none"],
     last_command |-> "none", calls |-> 0, reconnects |-> 0, busySends |-> 0]

\* control_logic.py, line 55: the default of FACE_CONFIRM_FRAMES
FACE_CONFIRM_FRAMES == 3

\* no command has been published
NoPublish == [cmd |-> "none", by |-> "none", state |-> "none", seq |-> 0]

\* run() after line 289: the state machine of ControlStateMachine.__init__
\* (lines 208-213), nothing published, no frame received.  pc is the
\* position of the coroutine that on_frame has started ("none" when there
\* is none), last the command published last, who published it and in
\* which state, frames the number of frames received, streak the face
\* frames on_frame has seen in a row in the current SPINNING state
CsmInit ==
    [state |-> "SPINNING", face_count |-> 0, pc |-> "none",
     started |-> FALSE, running |-> TRUE,
     last |-> NoPublish, frames |-> 0, streak |-> 0]

\* the caller of the codec before its first call: pc, where the text came
\* from (origin), the pair encoded, the text, the result of parse_request
CodecInit ==
    [pc |-> "idle", origin |-> "none", cmd |-> "", params |-> None,
     text |-> NoRequest, out |-> [raised |-> FALSE, cmd |-> "", params |-> None]]

Init ==
    /\ clock = Quantum
    /\ vx = 0 /\ vy = 0 /\ vyaw = 0
    /\ last_cmd_time = 0
    /\ lock = "free"
    /\ wr = [vx |-> 0, vy |-> 0, vyaw |-> 0, t |-> 0]
    /\ wd_pc = "top"
    /\ snap = [vx |-> 0, vy |-> 0, vyaw |-> 0, last_t |-> 0,
               wr |-> [vx |-> 0, vy |-> 0, vyaw |-> 0, t |-> 0],
               latest |-> NoCommand]
    /\ sent_zero = FALSE
    /\ wake_at = 0
    /\ cmd_pc = "poll"
    /\ raw = NoRequest
    /\ args = <<0, 0, 0>>
    /\ response = NoResponse
    /\ nrecv = 0 /\ nsent = 0
    /\ lastMove = [src |-> "none", v |-> <<0, 0, 0>>, at |-> 0, ok |-> TRUE,
                   by |-> 0, tby |-> 0, stamp |-> 0, latest |-> NoCommand]
    /\ hist = [latest |-> NoCommand, zeros |-> 0, zeroAt |-> 0, afterZero |-> 0,
               stops |-> 0, stopZeros |-> 0, tickMoves |-> 0, tickV |-> <<0, 0, 0>>,
               prevBad |-> FALSE, sdk |-> <<>>, prevSdk |-> <<>>, listed |-> <<>>,
               sets |-> 0, recvAt |-> 0]
    /\ robot = [obstacle_avoidance_enabled |-> OBSTACLE_AVOIDANCE,
                speed_level |-> 1, light_on |-> FALSE]
    /\ nats = NatsInit
    /\ codec = CodecInit
    /\ sd = SdInit
    /\ relay = RelayInit
    /\ oa = OaInit
    /\ ctl = CtlInit
    /\ csm = CsmInit

----------------------------------------------------------------------------
\* History bookkeeping (no effect on the program state)

\* one call of an SDK client method, and whether it raised
SdkCall(fn, a, raised) == [fn |-> fn, args |-> a, raised |-> raised]

\* one call of an SDK client method that returned code
SdkReturn(fn, a, code) == [fn |-> fn, args |-> a, raised |-> FALSE, code |-> code]

\* the cmd-handler thread has made the SDK call c
HistSdk(c) == [hist EXCEPT !.sdk = Append(@, c)]

\* a set_velocity(v) call of request k has completed at the current time
HistSet(k, v) ==
    [hist EXCEPT !.latest = [epi |-> "set", by |-> k, at |-> clock, v |-> v],
                 !.zeros = 0, !.zeroAt = 0, !.afterZero = 0,
                 !.stops = 0, !.stopZeros = 0, !.sets = 1]

\* a MovementLoop.stop call of request k has completed
HistStop(k) ==
    [hist EXCEPT !.latest = [epi |-> "stop", by |-> k, at |-> clock, v |-> <<0, 0, 0>>],
                 !.stops = @ + 1]

\* a Robot.move call: src is "relay" or "timeout" (move-loop thread) or
\* "stop" (cmd-handler thread, _handle_stop); ok when the call returned.
\* stopZeros counts the move(0,0,0) calls that returned since the first stop()
\* after the last set_velocity; sdk is the log of the SDK calls the
\* cmd-handler thread has made for the request it is handling
HistMove(src, v, ok) ==
    [hist EXCEPT
       !.sdk = IF src = "stop" THEN Append(@, SdkCall("Move", v, ~ok)) ELSE @,
       !.zeros = IF src = "timeout" THEN @ + 1 ELSE @,
       !.zeroAt = IF src = "timeout" /\ hist.zeros = 0 THEN clock ELSE @,
       !.afterZero = IF src # "stop" /\ hist.zeros > 0 THEN @ + 1 ELSE @,
       !.stopZeros = IF hist.stops > 0 /\ v = <<0, 0, 0>> /\ ok THEN @ + 1 ELSE @,
       !.tickMoves = IF src # "stop" THEN @ + 1 ELSE @,
       !.tickV = IF src # "stop" THEN v ELSE @]

----------------------------------------------------------------------------
\* robot.py

\* str(exc) of an exception raised by the SDK's Move
MoveError == "move failed"

\* str(exc) of an exception raised by another SDK call
SdkError == "sdk call failed"

\* the codes an SDK call returns: 0, and 1 for every other code
SdkCodes == {0, 1}

\* the setter storing the level as it comes
speed_level_setter_unclamped(level) == level

\* the setter Robot.speed_level, line 150: the value it stores and forwards
speed_level_setter(level) == max(1, min(level, 3))

\* set_light storing on whatever the code is
set_lightAnyCode(on, code, light_on) == on

\* Robot.set_light, lines 163-164: the value of _light_on after
\* vui.SetBrightness has returned code
set_light(on, code, light_on) == IF code = 0 THEN on ELSE light_on

\* Robot.move(vx, vy, vyaw), lines 118-127: one SDK Move call, which returns
\* or raises (ok = FALSE)
RobotMove(src, v, w, ok) ==
    /\ lastMove' = [src |-> src, v |-> v, at |-> clock, ok |-> ok,
                    by |-> w.vx, tby |-> w.t,
                    stamp |-> IF src = "stop" THEN 0 ELSE snap.last_t,
                    latest |-> hist.latest]
    /\ hist' = HistMove(src, v, ok)

----------------------------------------------------------------------------
\* movement_loop.py: the lock

\* a with block that does not wait for the lock
NoLock == TRUE

\* with self._lock: the lock can be taken
LockFree == lock = "free"

----------------------------------------------------------------------------
\* movement_loop.py: MovementLoop._loop, the move-loop thread

\* lines 62-64: while self._running; take the lock; read the velocity
Snapshot1 ==
    /\ wd_pc = "top"
    /\ LockFree
    /\ lock' = "wd"
    /\ snap' = [snap EXCEPT !.vx = vx, !.vy = vy, !.vyaw = vyaw,
                            !.wr.vx = wr.vx, !.wr.vy = wr.vy, !.wr.vyaw = wr.vyaw,
                            !.latest = hist.latest]
    /\ wd_pc' = "snap2"
    /\ hist' = [hist EXCEPT !.tickMoves = 0, !.tickV = <<0, 0, 0>>]
    /\ UNCHANGED <<apps, robot,
                   clock, vx, vy, vyaw, last_cmd_time, wr, sent_zero, wake_at,
                   cmdLocals, nrecv, nsent, lastMove>>

\* line 65: read the timestamp; leave the with block
Snapshot2 ==
    /\ wd_pc = "snap2"
    /\ snap' = [snap EXCEPT !.last_t = last_cmd_time, !.wr.t = wr.t]
    /\ lock' = IF lock = "wd" THEN "free" ELSE lock
    /\ wd_pc' = "decide"
    /\ UNCHANGED <<apps, robot,
                   clock, vx, vy, vyaw, last_cmd_time, wr, sent_zero, wake_at,
                   cmdLocals, nrecv, nsent, lastMove, hist>>

\* line 70 with timeout_s taken for milliseconds where now and last_t are seconds
ExpiredWrongUnit(last_t, now) == last_t > 0 /\ (now - last_t) > timeout_s * 1000

\* line 70 without the test for the inactive value of last_t
ExpiredNoSentinel(last_t, now) == (now - last_t) > timeout_s

\* line 70: the timeout test on the snapshot, now = time.monotonic()
Expired(last_t, now) == last_t > 0 /\ (now - last_t) > timeout_s

\* line 80 with the timestamp compared to the timeout instead of to zero
ActiveWrong(last_t) == last_t > timeout_s

\* line 80
Active(last_t) == last_t > 0

\* lines 67-71, 80: now = time.monotonic(); choose the branch
Decide ==
    /\ wd_pc = "decide"
    /\ wd_pc' = IF Expired(snap.last_t, clock)
                  THEN (IF ~sent_zero THEN "zero_move" ELSE "sleep")
                  ELSE IF Active(snap.last_t) THEN "relay" ELSE "sleep"
    /\ wake_at' = IF wd_pc' = "sleep" THEN clock + interval ELSE wake_at
    /\ UNCHANGED <<apps, robot,
                   clock, shared, snap, sent_zero, cmdLocals, nrecv, nsent,
                   lastMove, hist>>

\* line 73: self._robot.move(0.0, 0.0, 0.0), outside any try: an exception
\* ends the thread
TimeoutMove ==
    /\ wd_pc = "zero_move"
    /\ \/ RobotMove("timeout", <<0, 0, 0>>, snap.wr, TRUE) /\ wd_pc' = "reset_vx"
       \/ RobotMove("timeout", <<0, 0, 0>>, snap.wr, FALSE) /\ wd_pc' = "dead"
    /\ UNCHANGED <<apps, robot,
                   clock, shared, snap, sent_zero, wake_at, cmdLocals, nrecv, nsent>>

\* lines 74-75: take the lock; self._vx = 0.0
TimeoutResetVx ==
    /\ wd_pc = "reset_vx"
    /\ LockFree
    /\ lock' = "wd"
    /\ vx' = 0
    /\ wr' = [wr EXCEPT !.vx = -1]
    /\ wd_pc' = "reset_vy"
    /\ UNCHANGED <<apps, robot,
                   clock, vy, vyaw, last_cmd_time, snap, sent_zero, wake_at,
                   cmdLocals, nrecv, nsent, lastMove, hist>>

\* line 76
TimeoutResetVy ==
    /\ wd_pc = "reset_vy"
    /\ vy' = 0
    /\ wr' = [wr EXCEPT !.vy = -1]
    /\ wd_pc' = "reset_vyaw"
    /\ UNCHANGED <<apps, robot,
                   clock, vx, vyaw, last_cmd_time, lock, snap, sent_zero, wake_at,
                   cmdLocals, nrecv, nsent, lastMove, hist>>

\* line 77
TimeoutResetVyaw ==
    /\ wd_pc = "reset_vyaw"
    /\ vyaw' = 0
    /\ wr' = [wr EXCEPT !.vyaw = -1]
    /\ wd_pc' = "reset_t"
    /\ UNCHANGED <<apps, robot,
                   clock, vx, vy, last_cmd_time, lock, snap, sent_zero, wake_at,
                   cmdLocals, nrecv, nsent, lastMove, hist>>

\* lines 78-79: self._last_cmd_time = 0.0; leave the with block; sent_zero = True
TimeoutResetTime ==
    /\ wd_pc = "reset_t"
    /\ last_cmd_time' = 0
    /\ wr' = [wr EXCEPT !.t = -1]
    /\ lock' = IF lock = "wd" THEN "free" ELSE lock
    /\ sent_zero' = TRUE
    /\ wd_pc' = "sleep"
    /\ wake_at' = clock + interval
    /\ UNCHANGED <<apps, robot,
                   clock, vx, vy, vyaw, snap, cmdLocals, nrecv, nsent,
                   lastMove, hist>>

\* lines 82-87: relay the snapshot; an exception is logged; sent_zero = False
Relay ==
    /\ wd_pc = "relay"
    /\ \/ RobotMove("relay", <<snap.vx, snap.vy, snap.vyaw>>, snap.wr, TRUE)
       \/ RobotMove("relay", <<snap.vx, snap.vy, snap.vyaw>>, snap.wr, FALSE)
    /\ sent_zero' = FALSE
    /\ wd_pc' = "sleep"
    /\ wake_at' = clock + interval
    /\ UNCHANGED <<apps, robot,
                   clock, shared, snap, cmdLocals, nrecv, nsent>>

\* line 90: time.sleep(interval) returns
Wake ==
    /\ wd_pc = "sleep"
    /\ clock >= wake_at
    /\ wd_pc' = "top"
    /\ UNCHANGED <<apps, robot,
                   clock, shared, snap, sent_zero, wake_at, cmdLocals, nrecv, nsent,
                   lastMove, hist>>

\* time passes while the move-loop thread sleeps (or after it has died)
Tick ==
    /\ \/ wd_pc = "sleep" /\ clock < wake_at
       \/ wd_pc = "dead"
    /\ clock < MaxTime
    /\ clock' = clock + Quantum
    /\ UNCHANGED <<apps, robot,
                   shared, wdLocals, cmdLocals, nrecv, nsent,
                   lastMove, hist>>

----------------------------------------------------------------------------
\* command_handler.py: CommandHandler._loop, the cmd-handler thread

\* lines 52-54 without the except clause: the exception ends the thread
RaisedUncaught(exc) ==
    /\ cmd_pc' = "dead"
    /\ UNCHANGED <<response, args>>

\* lines 52-54: except Exception as exc: response = make_response(False, str(exc))
Raised(exc) ==
    /\ response' = make_response(FALSE, exc)
    /\ cmd_pc' = "send"
    /\ args' = args

\* a handler returns the response r
Reply(r) ==
    /\ response' = r
    /\ cmd_pc' = "send"
    /\ args' = args

\* params.get(key, 0.0) with a default other than 0.0
MoveComponentDefaultOne(m, key) == Get(m, key, JNum(1))

\* _handle_move, lines 93-95: params.get("vx", 0.0)
MoveComponent(m, key) == Get(m, key, JNum(0))

\* _handle_move calling set_velocity with 0.0 in the place of a component
\* float() rejects
HandleMoveArgsZeroFill(params) ==
    IF params.t # "map" THEN Raised(NoGetText(params))
    ELSE LET c == <<MoveComponent(params.m, "vx"), MoveComponent(params.m, "vy"),
                    MoveComponent(params.m, "vyaw")>>
         IN  /\ args' = [i \in 1..3 |-> IF CanFloat(c[i]) THEN float(c[i]) ELSE 0]
             /\ cmd_pc' = "set_vx"
             /\ response' = response

\* _handle_move, lines 93-95: params.get raises when params is no mapping,
\* float raises on the first component it cannot convert
HandleMoveArgs(params) ==
    IF params.t # "map" THEN Raised(NoGetText(params))
    ELSE LET c == <<MoveComponent(params.m, "vx"), MoveComponent(params.m, "vy"),
                    MoveComponent(params.m, "vyaw")>>
         IN  IF ~CanFloat(c[1]) THEN Raised(FloatErrorText(c[1]))
             ELSE IF ~CanFloat(c[2]) THEN Raised(FloatErrorText(c[2]))
             ELSE IF ~CanFloat(c[3]) THEN Raised(FloatErrorText(c[3]))
             ELSE /\ args' = <<float(c[1]), float(c[2]), float(c[3])>>
                  /\ cmd_pc' = "set_vx"
                  /\ response' = response

\* the commands whose handler runs as one step of the thread; the position
\* of the thread inside such a handler is named after the command
HandlerOf ==
    {"action", "obstacle_avoidance", "speed_level", "light", "list_actions",
     "status"}

\* line 76 answering an unknown command as if it had been carried out
UnknownCommandAccepted(cmd) == Reply(make_response(TRUE, cmd))

\* _dispatch, line 76
UnknownCommand(cmd) == Reply(make_response(FALSE, "unknown command: " \o cmd))

\* _dispatch, lines 59-76: the branch on cmd, up to the handler's first access
\* to shared state
Dispatch(p) ==
    IF p.raised THEN Raised(p.exc)
    ELSE IF p.cmd = "move" THEN HandleMoveArgs(p.params)
    ELSE IF p.cmd = "stop"
         THEN cmd_pc' = "stop_vx" /\ UNCHANGED <<args, response>>
    ELSE IF p.cmd \in HandlerOf
         THEN cmd_pc' = p.cmd /\ UNCHANGED <<args, response>>
    ELSE UnknownCommand(p.cmd)

\* _loop, lines 44-51: poll; raw = rep.recv(); cmd, params = parse_request(raw);
\* response = self._dispatch(cmd, params)
Recv ==
    /\ cmd_pc = "poll"
    /\ nrecv < MaxRequests
    /\ \E r \in RawRequests :
         /\ raw' = r
         /\ Dispatch(parse_request(r))
    /\ nrecv' = nrecv + 1
    /\ UNCHANGED <<apps, robot,
                   clock, shared, wdLocals, nsent, lastMove, hist>>

\* _loop, lines 44-51, receiving any of the requests of AllRawRequests
RecvAny ==
    /\ cmd_pc = "poll"
    /\ nrecv < MaxRequests
    /\ \E r \in AllRawRequests :
         /\ raw' = r
         /\ Dispatch(parse_request(r))
    /\ nrecv' = nrecv + 1
    /\ UNCHANGED <<apps, robot,
                   clock, shared, wdLocals, nsent, lastMove, hist>>

\* MovementLoop.set_velocity, lines 32-33: take the lock; self._vx = vx
SetVelocityVx ==
    /\ cmd_pc = "set_vx"
    /\ LockFree
    /\ lock' = "cmd"
    /\ vx' = args[1]
    /\ wr' = [wr EXCEPT !.vx = nrecv]
    /\ cmd_pc' = "set_vy"
    /\ UNCHANGED <<apps, robot,
                   clock, vy, vyaw, last_cmd_time, wdLocals, raw, args, response,
                   nrecv, nsent, lastMove, hist>>

\* line 34
SetVelocityVy ==
    /\ cmd_pc = "set_vy"
    /\ vy' = args[2]
    /\ wr' = [wr EXCEPT !.vy = nrecv]
    /\ cmd_pc' = "set_vyaw"
    /\ UNCHANGED <<apps, robot,
                   clock, vx, vyaw, last_cmd_time, lock, wdLocals, raw, args,
                   response, nrecv, nsent, lastMove, hist>>

\* line 35
SetVelocityVyaw ==
    /\ cmd_pc = "set_vyaw"
    /\ vyaw' = args[3]
    /\ wr' = [wr EXCEPT !.vyaw = nrecv]
    /\ cmd_pc' = "set_t"
    /\ UNCHANGED <<apps, robot,
                   clock, vx, vy, last_cmd_time, lock, wdLocals, raw, args,
                   response, nrecv, nsent, lastMove, hist>>

\* line 36: self._last_cmd_time = time.monotonic(); leave the with block;
\* _handle_move, line 97: the response
SetVelocityTime ==
    /\ cmd_pc = "set_t"
    /\ last_cmd_time' = clock
    /\ wr' = [wr EXCEPT !.t = nrecv]
    /\ lock' = IF lock = "cmd" THEN "free" ELSE lock
    /\ hist' = HistSet(nrecv, args)
    /\ response' = make_response(TRUE, "velocity updated")
    /\ cmd_pc' = "send"
    /\ UNCHANGED <<apps, robot,
                   clock, vx, vy, vyaw, wdLocals, raw, args, nrecv, nsent, lastMove>>

\* MovementLoop.stop, lines 40-41: take the lock; self._vx = 0.0
StopVx ==
    /\ cmd_pc = "stop_vx"
    /\ LockFree
    /\ lock' = "cmd"
    /\ vx' = 0
    /\ wr' = [wr EXCEPT !.vx = nrecv]
    /\ cmd_pc' = "stop_vy"
    /\ UNCHANGED <<apps, robot,
                   clock, vy, vyaw, last_cmd_time, wdLocals, raw, args, response,
                   nrecv, nsent, lastMove, hist>>

\* line 42
StopVy ==
    /\ cmd_pc = "stop_vy"
    /\ vy' = 0
    /\ wr' = [wr EXCEPT !.vy = nrecv]
    /\ cmd_pc' = "stop_vyaw"
    /\ UNCHANGED <<apps, robot,
                   clock, vx, vyaw, last_cmd_time, lock, wdLocals, raw, args,
                   response, nrecv, nsent, lastMove, hist>>

\* line 43
StopVyaw ==
    /\ cmd_pc = "stop_vyaw"
    /\ vyaw' = 0
    /\ wr' = [wr EXCEPT !.vyaw = nrecv]
    /\ cmd_pc' = "stop_t"
    /\ UNCHANGED <<apps, robot,
                   clock, vx, vy, last_cmd_time, lock, wdLocals, raw, args,
                   response, nrecv, nsent, lastMove, hist>>

\* line 44: self._last_cmd_time = 0.0; leave the with block
StopTime ==
    /\ cmd_pc = "stop_t"
    /\ last_cmd_time' = 0
    /\ wr' = [wr EXCEPT !.t = nrecv]
    /\ lock' = IF lock = "cmd" THEN "free" ELSE lock
    /\ hist' = HistStop(nrecv)
    /\ cmd_pc' = "stop_move"
    /\ UNCHANGED <<apps, robot,
                   clock, vx, vy, vyaw, wdLocals, raw, args, response, nrecv,
                   nsent, lastMove>>

\* _handle_stop without line 101: the response alone
HandleStopNoMove ==
    /\ cmd_pc = "stop_move"
    /\ Reply(make_response(TRUE, "stopped"))
    /\ UNCHANGED <<apps, robot,
                   clock, shared, wdLocals, raw, nrecv, nsent, lastMove, hist>>

\* _handle_stop, lines 101-102: self._robot.move(0.0, 0.0, 0.0) and the
\* response; an exception of move is caught in _loop, lines 52-54
HandleStopMove ==
    /\ cmd_pc = "stop_move"
    /\ \/ /\ RobotMove("stop", <<0, 0, 0>>, [vx |-> nrecv, t |-> nrecv], TRUE)
          /\ response' = make_response(TRUE, "stopped")
          /\ cmd_pc' = "send"
          /\ args' = args
       \/ /\ RobotMove("stop", <<0, 0, 0>>, [vx |-> nrecv, t |-> nrecv], FALSE)
          /\ Raised(MoveError)
    /\ UNCHANGED <<apps, robot,
                   clock, shared, wdLocals, raw, nrecv, nsent>>

\* line 55: rep.send(response).  raw, cmd, params and response are dead until
\* the next recv assigns them: they are put back to their initial values
Send ==
    /\ cmd_pc = "send"
    /\ nsent' = nsent + 1
    /\ cmd_pc' = "poll"
    /\ raw' = NoRequest
    /\ args' = <<0, 0, 0>>
    /\ response' = NoResponse
    /\ hist' = [hist EXCEPT !.prevBad = parse_request(raw).raised,
                            !.prevSdk = hist.sdk, !.sdk = <<>>]
    /\ UNCHANGED <<apps, robot,
                   clock, shared, wdLocals, nrecv, lastMove>>

\* lines 83-84 with ACTION_REGISTRY[name] for the lookup: the KeyError is
\* caught in _loop
UnknownActionKeyError(name) == Raised("'" \o str(name) \o "'")

\* _handle_action, lines 83-84
UnknownAction(name) == Reply(make_response(FALSE, "unknown action: " \o str(name)))

\* lines 89-90 reporting the action as executed
ActionFailedAsExecuted(name, exc) == Reply(make_response(TRUE, name \o " executed"))

\* _handle_action, lines 89-90: except Exception as exc
ActionFailed(name, exc) == Reply(make_response(FALSE, name \o " failed: " \o exc))

\* _handle_list_actions answering with the first key only
ListActionsDataFirstOnly == [actions |-> SubSeq(RegistryKeys, 1, 1)]

\* _handle_list_actions, line 127: {"actions": list(ACTION_REGISTRY.keys())}
ListActionsData == [actions |-> RegistryKeys]

\* _handle_status answering with the values Robot.__init__ assigned
StatusDataOfInit ==
    [obstacle_avoidance |-> OBSTACLE_AVOIDANCE, speed_level |-> 1, light_on |-> FALSE]

\* _handle_status, lines 130-134: the data of the response
StatusData ==
    [obstacle_avoidance |-> robot.obstacle_avoidance_enabled,
     speed_level |-> robot.speed_level,
     light_on |-> robot.light_on]

\* _handle_action, lines 81-90: the registry lookup; the SDK method called
\* by Robot.execute_action (robot.py, lines 131-134) returns a code or raises
HandleAction ==
    /\ cmd_pc = "action"
    /\ LET params == parse_request(raw).params
           name == Get(params.m, "name", JStr(""))
       IN  IF params.t # "map"
           THEN Raised(NoGetText(params)) /\ UNCHANGED <<robot, hist>>
           ELSE IF ~Hashable(name)
           THEN Raised(UnhashableText(name)) /\ UNCHANGED <<robot, hist>>
           ELSE IF ~(name.t = "str" /\ name.s \in RegisteredNames)
           THEN UnknownAction(name) /\ UNCHANGED <<robot, hist>>
           ELSE LET entry == RegistryEntry(name.s)
                IN  /\ robot' = robot
                    /\ \/ /\ hist' = HistSdk(SdkCall(entry.method, entry.args, FALSE))
                          /\ \E code \in SdkCodes :
                               Reply(make_response_data(TRUE, name.s \o " executed",
                                                        [code |-> code]))
                       \/ /\ hist' = HistSdk(SdkCall(entry.method, entry.args, TRUE))
                          /\ ActionFailed(name.s, SdkError)
    /\ UNCHANGED <<apps, clock, shared, wdLocals, raw, nrecv, nsent, lastMove>>

\* _handle_obstacle_avoidance, lines 105-110, and Robot.set_obstacle_avoidance
\* (robot.py, lines 83-114): nothing is done when the state asked for is the
\* current one; otherwise the SDK calls of the change return, and the field
\* is assigned, or one of them raises, and it is not
HandleObstacleAvoidance ==
    /\ cmd_pc = "obstacle_avoidance"
    /\ LET params == parse_request(raw).params
           enabled == bool(Get(params.m, "enabled", JBool(TRUE)))
           text == "obstacle avoidance "
                   \o (IF enabled THEN "enabled" ELSE "disabled")
       IN  IF params.t # "map"
           THEN Raised(NoGetText(params)) /\ UNCHANGED <<robot, hist>>
           ELSE IF enabled = robot.obstacle_avoidance_enabled
           THEN Reply(make_response(TRUE, text)) /\ UNCHANGED <<robot, hist>>
           ELSE \/ /\ robot' = [robot EXCEPT !.obstacle_avoidance_enabled = enabled]
                   /\ hist' = HistSdk(SdkCall("UseRemoteCommandFromApi",
                                              <<enabled>>, FALSE))
                   /\ Reply(make_response(TRUE, text))
                \/ /\ robot' = robot
                   /\ hist' = HistSdk(SdkCall("UseRemoteCommandFromApi",
                                              <<enabled>>, TRUE))
                   /\ Reply(make_response(FALSE, SdkError))
    /\ UNCHANGED <<apps, clock, shared, wdLocals, raw, nrecv, nsent, lastMove>>

\* _handle_speed_level, lines 113-115, and the setter Robot.speed_level
\* (robot.py, lines 148-152): int raises on a level that is no number; the
\* field is assigned before sport.SpeedLevel is called, which returns or
\* raises; its exception is caught in _loop, lines 52-54
HandleSpeedLevel ==
    /\ cmd_pc = "speed_level"
    /\ LET params == parse_request(raw).params
           level == Get(params.m, "level", JNum(1))
       IN  IF params.t # "map"
           THEN Raised(NoGetText(params)) /\ UNCHANGED <<robot, hist>>
           ELSE IF ~CanFloat(level)
           THEN Raised(IntErrorText(level)) /\ UNCHANGED <<robot, hist>>
           ELSE /\ robot' = [robot EXCEPT !.speed_level = speed_level_setter(int(level))]
                /\ \/ /\ hist' = HistSdk(SdkCall("SpeedLevel",
                                                  <<robot'.speed_level>>, FALSE))
                      /\ Reply(make_response(TRUE, "speed level set to "
                                                   \o ToString(robot'.speed_level)))
                   \/ /\ hist' = HistSdk(SdkCall("SpeedLevel",
                                                  <<robot'.speed_level>>, TRUE))
                      /\ Raised(SdkError)
    /\ UNCHANGED <<apps, clock, shared, wdLocals, raw, nrecv, nsent, lastMove>>

\* _handle_light, lines 118-124, and Robot.set_light (robot.py, lines
\* 160-165): vui.SetBrightness returns a code, and _light_on is assigned when
\* the code is 0, or raises
HandleLight ==
    /\ cmd_pc = "light"
    /\ LET params == parse_request(raw).params
           on == bool(Get(params.m, "on", JBool(TRUE)))
           brightness == IF on THEN 10 ELSE 0
       IN  IF params.t # "map"
           THEN Raised(NoGetText(params)) /\ UNCHANGED <<robot, hist>>
           ELSE \/ /\ \E code \in SdkCodes :
                        /\ hist' = HistSdk(SdkReturn("SetBrightness", <<brightness>>, code))
                        /\ robot' = [robot EXCEPT !.light_on = set_light(on, code, @)]
                        /\ Reply(make_response_data(
                                 code = 0,
                                 "light " \o (IF robot'.light_on THEN "on" ELSE "off"),
                                 [code |-> code]))
                \/ /\ hist' = HistSdk(SdkCall("SetBrightness", <<brightness>>, TRUE))
                   /\ robot' = robot
                   /\ Reply(make_response(FALSE, SdkError))
    /\ UNCHANGED <<apps, clock, shared, wdLocals, raw, nrecv, nsent, lastMove>>

\* _handle_list_actions, lines 126-127
HandleListActions ==
    /\ cmd_pc = "list_actions"
    /\ Reply(make_response_data(TRUE, "actions", ListActionsData))
    /\ hist' = [hist EXCEPT !.listed = Append(@, response'.data)]
    /\ UNCHANGED <<apps, robot, clock, shared, wdLocals, raw, nrecv, nsent,
                   lastMove>>

\* _handle_status, lines 129-134
HandleStatus ==
    /\ cmd_pc = "status"
    /\ Reply(make_response_data(TRUE, "ok", StatusData))
    /\ UNCHANGED <<apps, robot, clock, shared, wdLocals, raw, nrecv, nsent,
                   lastMove, hist>>

----------------------------------------------------------------------------
Next ==
    \/ Snapshot1 \/ Snapshot2 \/ Decide \/ TimeoutMove
    \/ TimeoutResetVx \/ TimeoutResetVy \/ TimeoutResetVyaw \/ TimeoutResetTime
    \/ Relay \/ Wake \/ Tick
    \/ Recv
    \/ SetVelocityVx \/ SetVelocityVy \/ SetVelocityVyaw \/ SetVelocityTime
    \/ StopVx \/ StopVy \/ StopVyaw \/ StopTime \/ HandleStopMove
    \/ Send

Spec == Init /\ [][Next]_vars

\* The cmd-handler thread alone, serving every command of the protocol while
\* the move-loop thread has not been scheduled yet
NextDispatcher ==
    \/ RecvAny
    \/ SetVelocityVx \/ SetVelocityVy \/ SetVelocityVyaw \/ SetVelocityTime
    \/ StopVx \/ StopVy \/ StopVyaw \/ StopTime \/ HandleStopMove
    \/ HandleAction \/ HandleObstacleAvoidance \/ HandleSpeedLevel
    \/ HandleLight \/ HandleListActions \/ HandleStatus
    \/ Send

SpecDispatcher == Init /\ [][NextDispatcher]_vars

\* _loop, lines 44-51, receiving a move command
RecvMove ==
    /\ cmd_pc = "poll"
    /\ nrecv < MaxRequests
    /\ \E r \in {RequestWith("move", MoveParams(<<1, 0, 2>>))} :
         /\ raw' = r
         /\ Dispatch(parse_request(r))
    /\ nrecv' = nrecv + 1
    /\ UNCHANGED <<apps, robot,
                   clock, shared, wdLocals, nsent, lastMove, hist>>

\* time passes while the move-loop thread is in time.sleep(interval), which
\* lasts the interval or longer (the thread is not scheduled, the process is
\* stopped), or after the thread has died
TickSlow ==
    /\ wd_pc \in {"sleep", "dead"}
    /\ clock < MaxSlowTime
    /\ clock' = clock + Quantum
    /\ UNCHANGED <<apps, robot,
                   shared, wdLocals, cmdLocals, nrecv, nsent,
                   lastMove, hist>>

\* Both threads, with a sleep of the move-loop thread that may return late
NextSlow ==
    \/ Snapshot1 \/ Snapshot2 \/ Decide \/ TimeoutMove
    \/ TimeoutResetVx \/ TimeoutResetVy \/ TimeoutResetVyaw \/ TimeoutResetTime
    \/ Relay \/ Wake \/ TickSlow
    \/ RecvMove
    \/ SetVelocityVx \/ SetVelocityVy \/ SetVelocityVyaw \/ SetVelocityTime
    \/ Send

SpecSlow == Init /\ [][NextSlow]_vars

\* the requests of a caller who sets a velocity and switches the obstacle
\* avoidance
BlockingRequests ==
    {RequestWith("move", MoveParams(<<1, 0, 2>>)),
     Request("obstacle_avoidance"),
     RequestWith("obstacle_avoidance", JMap([enabled |-> JBool(FALSE)])),
     RequestWith("obstacle_avoidance", JNum(5))}

\* _loop, lines 44-51, receiving one of BlockingRequests; the time of the
\* recv is kept
RecvBlocking ==
    /\ cmd_pc = "poll"
    /\ nrecv < MaxRequests
    /\ \E r \in BlockingRequests :
         /\ raw' = r
         /\ Dispatch(parse_request(r))
    /\ nrecv' = nrecv + 1
    /\ hist' = [hist EXCEPT !.recvAt = clock]
    /\ UNCHANGED <<apps, robot,
                   clock, shared, wdLocals, nsent, lastMove>>

\* Both threads, the cmd-handler thread serving move and obstacle_avoidance:
\* Robot.set_obstacle_avoidance (robot.py, lines 83-114) sleeps and calls
\* the SDK for as long as it takes while the clock goes on
NextBlocked ==
    \/ Snapshot1 \/ Snapshot2 \/ Decide \/ TimeoutMove
    \/ TimeoutResetVx \/ TimeoutResetVy \/ TimeoutResetVyaw \/ TimeoutResetTime
    \/ Relay \/ Wake \/ Tick
    \/ RecvBlocking
    \/ SetVelocityVx \/ SetVelocityVy \/ SetVelocityVyaw \/ SetVelocityTime
    \/ HandleObstacleAvoidance
    \/ Send

SpecBlocked == Init /\ [][NextBlocked]_vars

----------------------------------------------------------------------------
\* protocol.py: a caller of the codec

\* a caller makes a request text: make_request(cmd, params) returns it or
\* json.dumps raises
CodecMakeRequest ==
    /\ codec.pc \in {"idle", "decoded"}
    /\ \E cmd \in CodecCmds, params \in CodecParams :
         LET m == make_request(cmd, params)
         IN  codec' = [codec EXCEPT
                         !.pc = IF m.raised THEN "idle" ELSE "text",
                         !.origin = IF m.raised THEN "none" ELSE "pair",
                         !.cmd = cmd, !.params = params,
                         !.text = IF m.raised THEN NoRequest ELSE m.text]
    /\ UNCHANGED exceptCodec

\* a caller has a text from elsewhere
CodecTakeText ==
    /\ codec.pc \in {"idle", "decoded"}
    /\ \E r \in CodecTexts :
         codec' = [codec EXCEPT !.pc = "text", !.origin = "peer", !.cmd = "",
                                !.params = None, !.text = r]
    /\ UNCHANGED exceptCodec

\* the text is decoded: parse_request(raw) returns (cmd, params) or raises
CodecParseRequest ==
    /\ codec.pc = "text"
    /\ codec' = [codec EXCEPT !.pc = "decoded", !.out = parse_request(codec.text)]
    /\ UNCHANGED exceptCodec

NextCodec == CodecMakeRequest \/ CodecTakeText \/ CodecParseRequest

SpecCodec == Init /\ [][NextCodec]_vars

----------------------------------------------------------------------------
\* __main__.py: on_signal, and the three loops as main sees them

\* the signals the process may get
MaxSignals == 2

\* the process has not left through sys.exit
Alive == sd.main # "exited"

\* on_signal, lines 43-49: a second signal returns at once; the first sets
\* shutdown_event and enters handler.shutdown(), which clears _running
OnSignal ==
    /\ Alive
    /\ sd.signals < MaxSignals
    /\ sd' = IF sd.shutdown_event
             THEN [sd EXCEPT !.signals = @ + 1]
             ELSE [sd EXCEPT !.signals = @ + 1, !.shutdown_event = TRUE,
                             !.handler_running = FALSE, !.main = "handler_join"]
    /\ UNCHANGED exceptMain

\* command_handler.py, line 36: join(timeout=2.0) returns when the thread has
\* ended, or after 2 s with the thread still inside a handler (an SDK call
\* has a timeout of 3 s, the obstacle avoidance polling sleeps up to 5.5 s);
\* then camera.shutdown() clears its flag, camera_publisher.py, line 32
HandlerJoin ==
    /\ sd.main = "handler_join"
    /\ sd.cmd \in {"closed", "handling"}
    /\ sd' = [sd EXCEPT !.camera_running = FALSE, !.main = "camera_join"]
    /\ UNCHANGED exceptMain

\* camera_publisher.py, line 34: join(timeout=2.0), ended or timed out inside
\* get_image; then movement.shutdown() clears its flag, movement_loop.py,
\* line 53
CameraJoin ==
    /\ sd.main = "camera_join"
    /\ sd.cam \in {"closed", "grab"}
    /\ sd' = [sd EXCEPT !.movement_running = FALSE, !.main = "movement_join"]
    /\ UNCHANGED exceptMain

\* movement_loop.py, line 55: join(timeout=2.0), ended or timed out inside
\* robot.move
MovementJoin ==
    /\ sd.main = "movement_join"
    /\ sd.mv \in {"exited", "move"}
    /\ sd' = [sd EXCEPT !.main = "robot_move"]
    /\ UNCHANGED exceptMain

\* Robot.shutdown, lines 70-74: sport.Move(0.0, 0.0, 0.0), an exception is
\* swallowed
RobotShutdownMove ==
    /\ sd.main = "robot_move"
    /\ \E r \in {"ok", "raised"} :
         sd' = [sd EXCEPT !.zero = r, !.atZero = sd.closed, !.lateCalls = 0,
                          !.lateMoves = 0, !.main = "robot_release"]
    /\ UNCHANGED exceptMain

\* Robot.shutdown, lines 75-79: obstacles.UseRemoteCommandFromApi(False)
RobotShutdownRelease ==
    /\ sd.main = "robot_release"
    /\ sd' = [sd EXCEPT !.released = TRUE, !.main = "term"]
    /\ UNCHANGED exceptMain

\* __main__.py, line 53: ctx.term() is called; from now on every operation
\* on a socket of the context but close raises ContextTerminated
CtxTerm ==
    /\ sd.main = "term"
    /\ sd' = [sd EXCEPT !.term = TRUE, !.main = "terminating"]
    /\ UNCHANGED exceptMain

\* lines 53-55: ctx.term() returns once every socket of the context is closed
\* (a socket whose thread has died is closed when it is collected);
\* sys.exit(0) ends the process and its daemon threads
SysExit ==
    /\ sd.main = "terminating"
    /\ "pub" \in sd.closed
    /\ ("rep" \in sd.closed \/ sd.cmd = "dead")
    /\ sd' = [sd EXCEPT !.main = "exited"]
    /\ UNCHANGED exceptMain

\* CommandHandler._loop, lines 44 and 57: while self._running; rep.close()
\* after the loop
CmdLoopCheck ==
    /\ Alive
    /\ sd.cmd = "top"
    /\ sd' = IF sd.handler_running
             THEN [sd EXCEPT !.cmd = "polling"]
             ELSE [sd EXCEPT !.cmd = "closed", !.closed = @ \cup {"rep"}]
    /\ UNCHANGED exceptMain

\* lines 45-47: poll(timeout=500) returns without a request
CmdPollTimeout ==
    /\ Alive
    /\ sd.cmd = "polling"
    /\ sd' = [sd EXCEPT !.cmd = "top"]
    /\ UNCHANGED exceptMain

\* lines 45-48: a request is there; raw = rep.recv()
CmdRecv ==
    /\ Alive
    /\ sd.cmd = "polling"
    /\ sd.received < MaxRequests
    /\ sd' = [sd EXCEPT !.cmd = "handling", !.received = @ + 1]
    /\ UNCHANGED exceptMain

\* lines 49-54: parse_request and _dispatch, with the capability call of the
\* handler, which is robot.move in _handle_stop (line 101) and another call
\* in the other handlers; response is set on every path
CmdDispatch ==
    /\ Alive
    /\ sd.cmd = "handling"
    /\ \E moves \in BOOLEAN :
         sd' = [sd EXCEPT !.cmd = "send",
                          !.lateCalls = IF sd.zero # "none" THEN 1 ELSE @,
                          !.lateMoves = IF sd.zero # "none" /\ moves THEN 1 ELSE @]
    /\ UNCHANGED exceptMain

\* line 55: rep.send(response); after ctx.term() it raises ContextTerminated,
\* which nothing catches: the thread ends
CmdSend ==
    /\ Alive
    /\ sd.cmd = "send"
    /\ sd' = IF sd.term
             THEN [sd EXCEPT !.cmd = "dead"]
             ELSE [sd EXCEPT !.cmd = "top", !.sent = @ + 1]
    /\ UNCHANGED exceptMain

\* CameraPublisher._loop, lines 41 and 52: while self._running; pub.close()
CamLoopCheck ==
    /\ Alive
    /\ sd.cam = "top"
    /\ sd' = IF sd.camera_running
             THEN [sd EXCEPT !.cam = "grab", !.tick = "none", !.published = <<>>]
             ELSE [sd EXCEPT !.cam = "closed", !.closed = @ \cup {"pub"}]
    /\ UNCHANGED exceptMain

\* a camera thread that sends the frame whatever the code is
CamSendsAnyCode(outcome) == outcome \in {"frame", "code"}

\* line 44: if code == 0 and data
CamSends(outcome) == outcome = "frame"

\* lines 42-48: get_image raises or returns (code, data); a frame is sent as
\* [b"camera", jpeg_bytes]; an exception, that of a send after ctx.term()
\* included, is logged
CamGrab ==
    /\ Alive
    /\ sd.cam = "grab"
    /\ \E outcome \in CameraOutcomes :
         sd' = [sd EXCEPT !.cam = "sleep", !.tick = outcome,
                          !.published = IF CamSends(outcome) /\ ~sd.term
                                        THEN Append(@, <<"camera", "jpeg_bytes">>)
                                        ELSE @]
    /\ UNCHANGED exceptMain

\* line 50: time.sleep(interval) returns
CamSleep ==
    /\ Alive
    /\ sd.cam = "sleep"
    /\ sd' = [sd EXCEPT !.cam = "top"]
    /\ UNCHANGED exceptMain

\* MovementLoop._loop, line 62: while self._running
MoveLoopCheck ==
    /\ Alive
    /\ sd.mv = "top"
    /\ sd' = [sd EXCEPT !.mv = IF sd.movement_running THEN "tick" ELSE "exited"]
    /\ UNCHANGED exceptMain

\* lines 63-88: the tick decides for a robot.move call or for none
MoveLoopTick ==
    /\ Alive
    /\ sd.mv = "tick"
    /\ \E calls \in BOOLEAN :
         sd' = [sd EXCEPT !.mv = IF calls THEN "move" ELSE "sleep"]
    /\ UNCHANGED exceptMain

\* lines 73 and 83: robot.move returns (or raises in line 83)
MoveLoopMove ==
    /\ Alive
    /\ sd.mv = "move"
    /\ sd' = [sd EXCEPT !.mv = "sleep",
                        !.lateCalls = IF sd.zero # "none" THEN 1 ELSE @,
                        !.lateMoves = IF sd.zero # "none" THEN 1 ELSE @]
    /\ UNCHANGED exceptMain

\* line 90: time.sleep(interval) returns
MoveLoopSleep ==
    /\ Alive
    /\ sd.mv = "sleep"
    /\ sd' = [sd EXCEPT !.mv = "top"]
    /\ UNCHANGED exceptMain

NextMain ==
    \/ OnSignal \/ HandlerJoin \/ CameraJoin \/ MovementJoin
    \/ RobotShutdownMove \/ RobotShutdownRelease \/ CtxTerm \/ SysExit
    \/ CmdLoopCheck \/ CmdPollTimeout \/ CmdRecv \/ CmdDispatch \/ CmdSend
    \/ CamLoopCheck \/ CamGrab \/ CamSleep
    \/ MoveLoopCheck \/ MoveLoopTick \/ MoveLoopMove \/ MoveLoopSleep

SpecMain == Init /\ [][NextMain]_vars

----------------------------------------------------------------------------
\* go2_webapp/__main__.py: camera_relay and ws_camera

\* the frames the bridge publishes
MaxFrames == 3

\* the frames a connection takes from send_bytes while its peer reads none
SendBuffer == 1

\* the orders in which list(S) may give the elements of the set S
Orders(S) ==
    {o \in [1..Cardinality(S) -> S] : \A i, j \in DOMAIN o : o[i] = o[j] => i = j}

\* ws_camera, lines 108-109: accept the connection, add it to camera_clients
WsConnect ==
    /\ \E l \in Listeners :
         /\ relay.conn[l] = "none"
         /\ relay' = [relay EXCEPT !.conn[l] = "reading",
                                    !.camera_clients = @ \cup {l}]
    /\ UNCHANGED exceptRelay

\* a browser stops reading from its connection and leaves it open
WsStall ==
    /\ \E l \in Listeners :
         /\ relay.conn[l] = "reading"
         /\ relay' = [relay EXCEPT !.conn[l] = "stalled"]
    /\ UNCHANGED exceptRelay

\* a connection is closed by its peer or is lost
WsClose ==
    /\ \E l \in Listeners :
         /\ relay.conn[l] \in {"reading", "stalled"}
         /\ relay' = [relay EXCEPT !.conn[l] = "closed"]
    /\ UNCHANGED exceptRelay

\* ws_camera, lines 111-118: receive_text raises WebSocketDisconnect; the
\* finally clause discards the connection
WsCameraExit ==
    /\ \E l \in Listeners :
         /\ relay.conn[l] = "closed"
         /\ relay' = [relay EXCEPT !.conn[l] = "gone",
                                    !.camera_clients = @ \ {l}]
    /\ UNCHANGED exceptRelay

\* camera_relay, lines 85-90: a message of the bridge arrives; one with
\* fewer than two parts is skipped; dead = []; the for loop starts on
\* list(camera_clients)
RelayRecv ==
    /\ relay.pc = "recv"
    /\ relay.frames < MaxFrames
    /\ \E parts \in {1, 2} :
         IF parts < 2 \/ relay.camera_clients = {}
         THEN relay' = [relay EXCEPT !.frames = @ + 1, !.pending = <<>>,
                                    !.dead = <<>>]
         ELSE \E o \in Orders(relay.camera_clients) :
                relay' = [relay EXCEPT !.frames = @ + 1, !.pending = o,
                                       !.dead = <<>>, !.pc = "send"]
    /\ UNCHANGED exceptRelay

\* line 92: await ws.send_bytes(jpeg_data) comes back, by returning or by
\* raising, unless the peer has stopped reading and its buffer is full
SendReturns(l) == relay.conn[l] = "stalled" => relay.buf[l] < SendBuffer

\* lines 90-96: one await ws.send_bytes(jpeg_data) of the for loop returns,
\* or raises and the connection is put on the dead list; after the last
\* one the dead connections are discarded
RelaySend ==
    /\ relay.pc = "send"
    /\ LET l == Head(relay.pending)
           rest == Tail(relay.pending)
           raises == relay.conn[l] \in {"closed", "gone"}
           dead == IF raises THEN Append(relay.dead, l) ELSE relay.dead
           gone == {dead[i] : i \in DOMAIN dead}
       IN  /\ SendReturns(l)
           /\ relay' = [relay EXCEPT
                 !.got[l] = IF relay.conn[l] = "reading" THEN @ + 1 ELSE @,
                 !.buf[l] = IF relay.conn[l] = "stalled" THEN @ + 1 ELSE @,
                 !.pending = rest,
                 !.dead = dead,
                 !.camera_clients = IF rest = <<>> THEN @ \ gone ELSE @,
                 !.dropped = IF rest = <<>> THEN @ \cup gone ELSE @,
                 !.pc = IF rest = <<>> THEN "recv" ELSE "send"]
    /\ UNCHANGED exceptRelay

\* lines 99-101: recv_multipart raises; the error is logged and the task
\* sleeps 0.5 s
RelayRecvFails ==
    /\ relay.pc = "recv"
    /\ relay' = [relay EXCEPT !.pc = "backoff"]
    /\ UNCHANGED exceptRelay

\* line 101: asyncio.sleep(0.5) returns
RelayBackoff ==
    /\ relay.pc = "backoff"
    /\ relay' = [relay EXCEPT !.pc = "recv"]
    /\ UNCHANGED exceptRelay

\* on_shutdown, lines 134-141, and lines 97-98, 103: the task is cancelled at
\* the await it is in, leaves its loop and closes the SUB socket
RelayCancel ==
    /\ relay.pc \in {"recv", "send", "backoff"}
    /\ relay' = [relay EXCEPT !.pc = "stopped"]
    /\ UNCHANGED exceptRelay

NextRelay ==
    \/ WsConnect \/ WsStall \/ WsClose \/ WsCameraExit
    \/ RelayRecv \/ RelaySend \/ RelayRecvFails \/ RelayBackoff \/ RelayCancel

SpecRelay == Init /\ [][NextRelay]_vars

----------------------------------------------------------------------------
\* robot.py: Robot.set_obstacle_avoidance, step by step

\* what a step of Robot.set_obstacle_avoidance leaves alone
exceptObstacle ==
    <<clock, shared, wdLocals, cmdLocals, nrecv, nsent, lastMove, hist,
      nats, codec, sd, relay, ctl, csm>>

\* set_obstacle_avoidance(enabled), lines 110-114: _enable_obstacle_avoidance
\* is entered when the flag is off, _disable_obstacle_avoidance (lines
\* 103-108) runs when it is on, and its two SDK calls return or one of them
\* raises before line 107; nothing is done when the flag has the value
\* asked for
OaCall ==
    /\ oa.pc = "idle"
    /\ \E enabled \in BOOLEAN :
         IF enabled /\ ~robot.obstacle_avoidance_enabled
         THEN /\ oa' = [oa EXCEPT !.pc = "poll", !.polls = 0,
                                  !.confirmed = FALSE, !.assigned = FALSE]
              /\ robot' = robot
         ELSE IF ~enabled /\ robot.obstacle_avoidance_enabled
         THEN /\ oa' = [oa EXCEPT !.assigned = FALSE]
              /\ \/ robot' = [robot EXCEPT !.obstacle_avoidance_enabled = FALSE]
                 \/ robot' = robot
         ELSE UNCHANGED <<oa, robot>>
    /\ UNCHANGED exceptObstacle

\* lines 87-90: one more turn of the loop; code, on = obstacles.SwitchGet()
\* returns on or off, or raises and ends the call
OaSwitchGet ==
    /\ oa.pc = "poll"
    /\ oa.polls < SWITCH_POLLS
    /\ \E r \in {"on", "off", "raise"} :
         oa' = [oa EXCEPT !.polls = @ + 1,
                          !.confirmed = (r = "on"),
                          !.pc = CASE r = "on" -> "api"
                                   [] r = "off" -> "switch_set"
                                   [] r = "raise" -> "idle"]
    /\ UNCHANGED <<robot, exceptObstacle>>

\* lines 91-92: obstacles.SwitchSet(True) returns, or raises and ends the
\* call; time.sleep(0.1)
OaSwitchSet ==
    /\ oa.pc = "switch_set"
    /\ \E raises \in BOOLEAN :
         oa' = [oa EXCEPT !.pc = IF raises THEN "idle" ELSE "poll"]
    /\ UNCHANGED <<robot, exceptObstacle>>

\* lines 87 and 93-94: range(50) is used up; the else clause logs a warning
OaExhausted ==
    /\ oa.pc = "poll"
    /\ oa.polls = SWITCH_POLLS
    /\ oa' = [oa EXCEPT !.pc = "api"]
    /\ UNCHANGED <<robot, exceptObstacle>>

\* lines 96-100: obstacles.UseRemoteCommandFromApi(True) returns, or raises
\* and ends the call; time.sleep(0.5); self.obstacle_avoidance_enabled = True
OaUseApi ==
    /\ oa.pc = "api"
    /\ \/ /\ robot' = [robot EXCEPT !.obstacle_avoidance_enabled = TRUE]
          /\ oa' = [oa EXCEPT !.pc = "idle", !.assigned = TRUE]
       \/ /\ robot' = robot
          /\ oa' = [oa EXCEPT !.pc = "idle"]
    /\ UNCHANGED exceptObstacle

\* Robot.move, lines 118-127, called by another thread: the client is chosen
\* by the flag
OaMove ==
    /\ oa' = [oa EXCEPT !.client = IF robot.obstacle_avoidance_enabled
                                   THEN "obstacles" ELSE "sport"]
    /\ UNCHANGED <<robot, exceptObstacle>>

NextObstacle ==
    OaCall \/ OaSwitchGet \/ OaSwitchSet \/ OaExhausted \/ OaUseApi \/ OaMove

SpecObstacle == Init /\ [][NextObstacle]_vars

----------------------------------------------------------------------------
\* robot_controller.py: GO2Controller

\* the calls made on one controller
MaxCalls == 3

\* what a step of the controller leaves alone
exceptCtl == <<bridge, nats, codec, sd, relay, oa, csm>>

\* connect(), lines 47-55, called by the thread that made the controller:
\* the context and the REQ socket are created and _bridge_cmd("status") is
\* entered
CtlConnect ==
    /\ ctl.ctx = "none"
    /\ ctl' = [ctl EXCEPT !.ctx = "open", !.sock = "ready",
                          !.pc["t1"] = "send", !.kind["t1"] = "connect"]
    /\ UNCHANGED exceptCtl

\* connect() has returned
Connected == ctl.ctx # "none" /\ \A t \in CtlThreads : ctl.kind[t] # "connect"

\* _send_command, lines 105-113, and emergency_stop, lines 158-159: the
\* thread takes command_lock; _send_command returns when the controller is
\* not connected; otherwise _bridge_cmd is entered
CtlCall ==
    /\ Connected
    /\ ctl.lock = "free"
    /\ ctl.calls < MaxCalls
    /\ \E t \in CtlThreads, k \in {"move", "stop", "emergency"} :
         /\ ctl.pc[t] = "idle"
         /\ ctl' = IF k # "emergency" /\ ~ctl.connected
                   THEN [ctl EXCEPT !.calls = @ + 1]
                   ELSE [ctl EXCEPT !.calls = @ + 1, !.lock = t,
                                    !.pc[t] = "send", !.kind[t] = k]
    /\ UNCHANGED exceptCtl

\* _bridge_cmd, line 76: self._sock.send_json(msg).  On a socket that is
\* ready the request is sent, or the send times out (SNDTIMEO); on a socket
\* whose last request has no reply, and on a closed socket, it raises ZMQError
CtlSendJson ==
    /\ \E t \in CtlThreads :
         /\ ctl.pc[t] = "send"
         /\ \/ /\ ctl.sock = "ready"
               /\ ctl' = [ctl EXCEPT !.sock = "awaiting", !.pc[t] = "recv"]
            \/ /\ ctl.sock = "ready"
               /\ ctl' = [ctl EXCEPT !.pc[t] = "reconnect"]
            \/ /\ ctl.sock = "awaiting"
               /\ ctl' = [ctl EXCEPT !.busySends = 1, !.pc[t] = "reconnect"]
            \/ /\ ctl.sock = "closed"
               /\ ctl' = [ctl EXCEPT !.pc[t] = "reconnect"]
    /\ UNCHANGED exceptCtl

\* _bridge_cmd, line 77: self._sock.recv_json() returns the reply, or raises
\* zmq.Again after RCVTIMEO, or ZMQError on a socket closed meanwhile
CtlRecvJson ==
    /\ \E t \in CtlThreads :
         /\ ctl.pc[t] = "recv"
         /\ \/ /\ ctl.sock = "awaiting"
               /\ ctl' = [ctl EXCEPT !.sock = "ready", !.pc[t] = "finish"]
            \/ ctl' = [ctl EXCEPT !.pc[t] = "reconnect"]
    /\ UNCHANGED exceptCtl

\* _reconnect leaving the socket as it is
reconnectKeepsSocket(created) == ctl.sock

\* _reconnect, lines 86-94: the socket is closed; a new one takes its place
\* unless creating it raises
reconnect(created) == IF created THEN "ready" ELSE "closed"

\* _bridge_cmd, lines 78-82: except zmq.ZMQError: self._reconnect(); a
\* socket cannot be created on a terminated context
CtlReconnect ==
    /\ \E t \in CtlThreads :
         /\ ctl.pc[t] = "reconnect"
         /\ \E created \in (IF ctl.ctx = "open" THEN BOOLEAN ELSE {FALSE}) :
              ctl' = [ctl EXCEPT !.sock = reconnect(created),
                                 !.reconnects = @ + 1,
                                 !.pc[t] = "finish"]
    /\ UNCHANGED exceptCtl

\* _bridge_cmd has returned: connect, lines 56-63, sets connected on either
\* result; _send_command, lines 115-116, records the command and leaves the
\* with block; emergency_stop leaves its with block
CtlFinish ==
    /\ \E t \in CtlThreads :
         /\ ctl.pc[t] = "finish"
         /\ ctl' = [ctl EXCEPT
                      !.pc[t] = "idle", !.kind[t] = "none",
                      !.connected = IF ctl.kind[t] = "connect" THEN TRUE ELSE @,
                      !.lock = IF ctl.lock = t THEN "free" ELSE @,
                      !.last_command = IF ctl.kind[t] \in {"move", "stop"}
                                       THEN ctl.kind[t] ELSE @]
    /\ UNCHANGED exceptCtl

\* disconnect, lines 183-191, after its self.stop() has returned: the socket
\* is closed and the context terminated, whatever another thread is doing
CtlDisconnect ==
    /\ ctl.connected
    /\ \E t \in CtlThreads : ctl.pc[t] = "idle"
    /\ ctl' = [ctl EXCEPT !.connected = FALSE, !.sock = "closed",
                          !.ctx = "terminated"]
    /\ UNCHANGED exceptCtl

NextCtl ==
    \/ CtlConnect \/ CtlCall \/ CtlSendJson \/ CtlRecvJson \/ CtlReconnect
    \/ CtlFinish \/ CtlDisconnect

SpecCtl == Init /\ [][NextCtl]_vars

----------------------------------------------------------------------------
\* apps/controlLogic/control_logic.py: ControlStateMachine and run()

\* the camera frames run() receives
MaxCamFrames == 6

\* what a step of the control logic leaves alone
exceptCsm == <<bridge, nats, codec, sd, relay, oa, ctl>>

\* RobotCommander, lines 165-185: the command published by a call; by is the
\* caller and the state is that of the machine when it is published
Publish(c, cmd, by) ==
    [c EXCEPT !.last = [cmd |-> cmd, by |-> by, state |-> c.state,
                        seq |-> 1 - c.last.seq]]

\* run(), lines 304-319: the initial spin and the subscription to the camera
\* subject
CsmStart ==
    /\ ~csm.started
    /\ csm' = Publish([csm EXCEPT !.started = TRUE], "spin", "run")
    /\ UNCHANGED exceptCsm

\* the machine can take a step of run(): the subscription and the connection
\* are there
CsmLive == csm.started /\ csm.running

\* line 225 reacting to the first frame with a face
FaceConfirmedAtOnce(count) == count >= 1

\* line 225: if self._face_count >= FACE_CONFIRM_FRAMES
FaceConfirmed(count) == count >= FACE_CONFIRM_FRAMES

\* on_camera_frame, lines 311-317, and on_frame, lines 215-230, up to the
\* first await that suspends: a frame that cannot be decoded is dropped; in
\* SPINNING a frame with a face is counted and, once confirmed, the count is
\* reset, the state becomes STOPPING and stop is published (lines 237-238);
\* a frame without a face resets the count; in any other state nothing is
\* done
CsmFrame ==
    /\ CsmLive
    /\ csm.frames < MaxCamFrames
    /\ \E f \in {"face", "noface", "undecodable"} :
         LET c == [csm EXCEPT !.frames = @ + 1]
         IN  csm' =
               IF f = "undecodable" \/ csm.state # "SPINNING" THEN c
               ELSE IF f = "noface"
               THEN [c EXCEPT !.face_count = 0, !.streak = 0]
               ELSE IF FaceConfirmed(csm.face_count + 1)
               THEN Publish([c EXCEPT !.face_count = 0,
                                      !.streak = @ + 1,
                                      !.state = "STOPPING",
                                      !.pc = "settle"], "stop", "fsm")
               ELSE [c EXCEPT !.face_count = @ + 1, !.streak = @ + 1]
    /\ UNCHANGED exceptCsm

\* _transition_to_stopping, lines 239-242: the sleep of 0.5 s is over; the
\* hello action is published
CsmHello ==
    /\ CsmLive
    /\ csm.pc = "settle"
    /\ csm' = Publish([csm EXCEPT !.pc = "hello"], "hello", "fsm")
    /\ UNCHANGED exceptCsm

\* lines 243-250: the sleep of 3 s is over; state = TALKING and talkToHuman
\* is entered
CsmTalk ==
    /\ CsmLive
    /\ csm.pc = "hello"
    /\ csm' = [csm EXCEPT !.state = "TALKING", !.pc = "talking"]
    /\ UNCHANGED exceptCsm

\* lines 250-257: talkToHuman returns, state = RISING and stand_up is
\* published; or talkToHuman raises (lines 133, 136, 144, 148) and the
\* exception ends on_frame and the callback
CsmTalkEnds ==
    /\ CsmLive
    /\ csm.pc = "talking"
    /\ \/ csm' = Publish([csm EXCEPT !.state = "RISING", !.pc = "rise"],
                         "stand_up", "fsm")
       \/ csm' = [csm EXCEPT !.pc = "none"]
    /\ UNCHANGED exceptCsm

\* lines 258-264: the sleep of 2 s is over; state = COOLDOWN
CsmCooldown ==
    /\ CsmLive
    /\ csm.pc = "rise"
    /\ csm' = [csm EXCEPT !.state = "COOLDOWN", !.pc = "cooldown"]
    /\ UNCHANGED exceptCsm

\* lines 265-273: the cooldown is over; state = SPINNING, the count is reset
\* and spin is published; on_frame returns
CsmSpin ==
    /\ CsmLive
    /\ csm.pc = "cooldown"
    /\ csm' = Publish([csm EXCEPT !.state = "SPINNING", !.face_count = 0,
                                  !.streak = 0, !.pc = "none"], "spin", "fsm")
    /\ UNCHANGED exceptCsm

\* run(), lines 325-330: one turn of the keep-alive loop
CsmKeepAlive ==
    /\ CsmLive
    /\ csm' = IF csm.state = "SPINNING" THEN Publish(csm, "spin", "keepalive")
              ELSE csm
    /\ UNCHANGED exceptCsm

\* run(), lines 293-295 and 333-337: a signal clears running; the loop ends,
\* stop is published, the subscription and the connection are closed
CsmShutdown ==
    /\ CsmLive
    /\ csm' = Publish([csm EXCEPT !.running = FALSE], "stop", "run")
    /\ UNCHANGED exceptCsm

NextCsm ==
    \/ CsmStart \/ CsmFrame \/ CsmHello \/ CsmTalk \/ CsmTalkEnds
    \/ CsmCooldown \/ CsmSpin \/ CsmKeepAlive \/ CsmShutdown

SpecCsm == Init /\ [][NextCsm]_vars

----------------------------------------------------------------------------
\* apps/nats_controller: the command server (server.py) and one
\* Go2NATSClient (client.py).  The subscription of the server runs
\* handle_command for one message at a time; the bridge is what
\* ZMQBridgeClient sees of it: the result of send_command and of
\* get_camera_frame.

\* str(exc) of the exception nc.publish raises (nats.errors.MaxPayloadError)
PublishError == "nats: maximum payload exceeded"

\* client.py, lines 218-219: the frame subject of the k-th call, unique as
\* the uuid4 in it is
ClientFrameSubject(k) == DEFAULT_CAMERA_SUBJECT \o ".f" \o ToString(k)

\* client.py, lines 214-226: get_camera_frame makes its frame subject and
\* subscribes to it; frame_future is pending
ClientSubscribeFrame ==
    /\ nats.client.state # "waiting"
    /\ nats.client.gcf \in {"idle", "returned"}
    /\ nats.n < MaxRequests
    /\ nats' = [nats EXCEPT
                  !.fbox = <<>>,
                  !.client.gcf = "subscribed",
                  !.client.fsub = ClientFrameSubject(nats.client.calls + 1),
                  !.client.frame = None,
                  !.client.ret = None]
    /\ UNCHANGED exceptNats

\* client.py, line 230: the params get_camera_frame hands to _send_command
ClientParams(c) ==
    IF c.cmd = "get_camera_frame"
    THEN JMap([frame_subject |-> JStr(nats.client.fsub)])
    ELSE c.params

\* client.py, lines 94-120: _send_command makes the request id, subscribes
\* to its inbox and publishes the command with the inbox as reply subject;
\* get_camera_frame calls it once it has subscribed to its frame subject
ClientSend ==
    /\ nats.client.state # "waiting"
    /\ nats.client.gcf \in {"idle", "returned", "subscribed"}
    /\ nats.queue = <<>>
    /\ nats.n < MaxRequests
    /\ \E c \in ClientCalls :
         LET rid == Uuid[nats.client.calls + 1]
         IN  /\ (c.cmd = "get_camera_frame") <=> (nats.client.gcf = "subscribed")
             /\ nats' = [nats EXCEPT
                           !.queue = <<NatsMsg(ClientPayload(c.cmd, rid, ClientParams(c)),
                                               Inbox(rid))>>,
                           !.n = @ + 1,
                           !.inbox = <<>>,
                           !.client.state = "waiting",
                           !.client.calls = @ + 1,
                           !.client.request_id = rid,
                           !.client.cmd = c.cmd,
                           !.client.result = NoResponse,
                           !.client.dropped = 0,
                           !.client.gcf = IF c.cmd = "get_camera_frame"
                                          THEN "command" ELSE @]
    /\ UNCHANGED exceptNats

\* another peer publishes on the command subject
PeerPublish ==
    /\ nats.queue = <<>>
    /\ nats.n < MaxRequests
    /\ \E m \in PeerMessages :
         nats' = [nats EXCEPT !.queue = <<m>>, !.n = @ + 1]
    /\ UNCHANGED exceptNats

\* server.py, lines 123-126: json.loads raises on a text that is not JSON,
\* data.get raises on a JSON value that is no object; otherwise command,
\* params and request_id (a message of the model always has a cmd)
NatsParse(r) ==
    CASE r.kind = "notjson" ->
           [raised |-> TRUE, invalid |-> TRUE, exc |-> JSONDecodeErrorText]
      [] r.kind = "array" ->
           [raised |-> TRUE, invalid |-> FALSE, exc |-> ListAttributeErrorText]
      [] OTHER ->
           [raised |-> FALSE, command |-> Get(r.obj, "cmd", ""),
            params |-> Get(r.obj, "params", None),
            request_id |-> Get(r.obj, "id", None)]

\* lines 133-135 ignoring the frame subject of the caller
FrameSubjectGenerated(params, request_id) ==
    JStr(DEFAULT_CAMERA_SUBJECT \o "." \o str(request_id))

\* lines 133-135: the frame subject of the caller, or a generated one
FrameSubject(params, request_id) ==
    LET given == IF Truthy(params) THEN Get(params.m, "frame_subject", None)
                                   ELSE None
    IN  IF Truthy(given) THEN given
        ELSE JStr(DEFAULT_CAMERA_SUBJECT \o "." \o str(request_id))

\* handle_command, lines 123-135 and 154-156: the message is decoded and the
\* branch chosen; params.get raises on params that are truthy and no dict
NatsReceive ==
    /\ nats.pc = "idle"
    /\ nats.queue # <<>>
    /\ LET m == Head(nats.queue)
           p == NatsParse(m.data)
           taken == [nats EXCEPT !.queue = <<>>, !.msg = m, !.published = <<>>,
                                 !.captures = 0, !.forwards = 0, !.jpeg = None,
                                 !.frame_subject = None, !.request_id = None,
                                 !.response = NoResponse, !.exc = ""]
       IN  nats' =
             IF p.raised
             THEN [taken EXCEPT !.pc = IF p.invalid THEN "invalid_json" ELSE "error",
                                !.exc = p.exc]
             ELSE IF p.command # "get_camera_frame"
             THEN [taken EXCEPT !.pc = "forward", !.request_id = p.request_id]
             ELSE IF Truthy(p.params) /\ p.params.t # "map"
             THEN [taken EXCEPT !.pc = "error", !.request_id = p.request_id,
                                !.exc = NoGetText(p.params)]
             ELSE [taken EXCEPT !.pc = "capture", !.request_id = p.request_id,
                                !.frame_subject =
                                    FrameSubject(p.params, p.request_id)]
    /\ UNCHANGED exceptNats

\* line 137 and lines 148-153: bridge.get_camera_frame() returns bytes or
\* None; without a frame the response is built
NatsCapture ==
    /\ nats.pc = "capture"
    /\ \E f \in CameraResults :
         nats' = [nats EXCEPT
                    !.jpeg = f,
                    !.captures = @ + 1,
                    !.pc = IF Truthy(f) THEN "publish_frame" ELSE "reply",
                    !.response =
                        IF Truthy(f) THEN @
                        ELSE [id |-> nats.request_id, ok |-> FALSE,
                              msg |-> "Timeout waiting for camera frame"]]
    /\ UNCHANGED exceptNats

\* lines 140-147: await nc.publish(frame_subject, jpeg_bytes) returns, and
\* the response is built, or raises; a subscription to the subject receives
\* the frame
NatsPublishFrame ==
    /\ nats.pc = "publish_frame"
    /\ \/ nats' = [nats EXCEPT
                      !.published = Append(@, [subject |-> nats.frame_subject.s,
                                               kind |-> "frame",
                                               payload |-> nats.jpeg]),
                      !.fbox = IF nats.client.fsub = nats.frame_subject.s
                               THEN Append(@, nats.jpeg) ELSE @,
                      !.response =
                          [id |-> nats.request_id, ok |-> TRUE,
                           msg |-> "Camera frame captured ("
                                   \o ToString(Len(nats.jpeg.b)) \o " bytes)",
                           frame_subject |-> nats.frame_subject],
                      !.pc = "reply"]
       \/ nats' = [nats EXCEPT !.pc = "error", !.exc = PublishError]
    /\ UNCHANGED exceptNats

\* lines 156-157: resp = bridge.send_command(command, params);
\* response = {"id": request_id, **resp}
NatsForward ==
    /\ nats.pc = "forward"
    /\ \E resp \in BridgeReplies :
         nats' = [nats EXCEPT !.response = resp @@ [id |-> nats.request_id],
                              !.forwards = @ + 1,
                              !.pc = "reply"]
    /\ UNCHANGED exceptNats

\* the server publishing payload whether the message has a reply subject or
\* not
ServerReplyUnconditional(payload) ==
    [nats EXCEPT
       !.pc = "idle",
       !.published = Append(@, [subject |-> nats.msg.reply,
                                kind |-> "response", payload |-> payload])]

\* the server publishes payload on the reply subject of the message, if it
\* has one; the client's subscription to its inbox receives it
ServerReply(payload) ==
    IF nats.msg.reply = "" THEN [nats EXCEPT !.pc = "idle"]
    ELSE [nats EXCEPT
            !.pc = "idle",
            !.published = Append(@, [subject |-> nats.msg.reply,
                                     kind |-> "response", payload |-> payload]),
            !.inbox = IF /\ nats.client.state = "waiting"
                         /\ nats.msg.reply = Inbox(nats.client.request_id)
                      THEN Append(@, payload) ELSE @]

\* lines 161-166
NatsReply ==
    /\ nats.pc = "reply"
    /\ nats' = ServerReply(nats.response)
    /\ UNCHANGED exceptNats

\* lines 168-172: except json.JSONDecodeError
NatsInvalidJson ==
    /\ nats.pc = "invalid_json"
    /\ nats' = ServerReply([ok |-> FALSE, msg |-> "Invalid JSON: " \o nats.exc])
    /\ UNCHANGED exceptNats

\* lines 173-177: except Exception
NatsError ==
    /\ nats.pc = "error"
    /\ nats' = ServerReply([ok |-> FALSE, msg |-> "Error: " \o nats.exc])
    /\ UNCHANGED exceptNats

\* client.py, lines 103-107: on_response sets the result when the id of the
\* reply is the id of the request, and does nothing otherwise
ClientOnResponse ==
    /\ nats.client.state = "waiting"
    /\ nats.inbox # <<>>
    /\ LET data == Head(nats.inbox)
       IN  nats' =
             IF Get(data, "id", None) = JStr(nats.client.request_id)
             THEN [nats EXCEPT !.inbox = Tail(@), !.client.state = "done",
                               !.client.result = data]
             ELSE [nats EXCEPT !.inbox = Tail(@), !.client.dropped = @ + 1]
    /\ UNCHANGED exceptNats

\* lines 123-126: asyncio.wait_for gives up after 5 s
ClientTimeout ==
    /\ nats.client.state = "waiting"
    /\ nats' = [nats EXCEPT !.client.state = "done",
                            !.client.result = ClientTimeoutResult]
    /\ UNCHANGED exceptNats

\* client.py, lines 222-223: on_frame sets the result of frame_future
ClientOnFrame ==
    /\ nats.fbox # <<>>
    /\ nats' = [nats EXCEPT !.fbox = Tail(@), !.client.frame = Head(nats.fbox)]
    /\ UNCHANGED exceptNats

\* get_camera_frame returning ret without line 244
ClientFrameDoneStillSubscribed(ret) ==
    [nats EXCEPT !.client.gcf = "returned", !.client.ret = ret]

\* the end of get_camera_frame, lines 243-244: the call returns ret and the
\* frame subscription is removed
ClientFrameDone(ret) ==
    [nats EXCEPT !.fbox = <<>>, !.client.gcf = "returned",
                 !.client.fsub = "", !.client.ret = ret]

\* lines 230-234: _send_command has returned; a response that is not ok
\* (that of the server, or the timeout of line 126) ends the call with None
ClientFrameCheck ==
    /\ nats.client.gcf = "command"
    /\ nats.client.state = "done"
    /\ nats' = IF Get(nats.client.result, "ok", FALSE)
               THEN [nats EXCEPT !.client.gcf = "frame_wait"]
               ELSE ClientFrameDone(None)
    /\ UNCHANGED exceptNats

\* lines 237-239: frame_future has its result
ClientFrameReturn ==
    /\ nats.client.gcf = "frame_wait"
    /\ nats.client.frame # None
    /\ nats' = ClientFrameDone(nats.client.frame)
    /\ UNCHANGED exceptNats

\* lines 237 and 240-242: asyncio.wait_for gives up after 5 s
ClientFrameTimeout ==
    /\ nats.client.gcf = "frame_wait"
    /\ nats.client.frame = None
    /\ nats' = ClientFrameDone(None)
    /\ UNCHANGED exceptNats

NextNats ==
    \/ ClientSubscribeFrame \/ ClientOnFrame
    \/ ClientFrameCheck \/ ClientFrameReturn \/ ClientFrameTimeout
    \/ ClientSend \/ PeerPublish
    \/ NatsReceive \/ NatsCapture \/ NatsPublishFrame \/ NatsForward
    \/ NatsReply \/ NatsInvalidJson \/ NatsError
    \/ ClientOnResponse \/ ClientTimeout

SpecNats == Init /\ [][NextNats]_vars

----------------------------------------------------------------------------
\* Properties

\* the watchdog command completed last is a set_velocity: the time since
\* hist.latest.at is silence
Silence == hist.latest.epi = "set"

\* C1 (as claimed).  Watchdog liveness: in the silence after the last
\* SetVelocity the movement loop issues exactly one timeout move(0,0,0), no
\* earlier than timeout and no later than timeout plus one tick period after
\* that SetVelocity, and no move call after it.
C1_WatchdogLiveness ==
    Silence =>
        /\ hist.zeros <= 1
        /\ hist.zeros = 1 => hist.zeroAt - hist.latest.at > timeout_s
        /\ hist.zeros = 1 => hist.zeroAt - hist.latest.at <= timeout_s + interval
        /\ clock - hist.latest.at > timeout_s + interval => hist.zeros = 1
        /\ hist.afterZero = 0

\* C2.  Every relayed velocity comes from a set_velocity call whose timestamp
\* is at most timeout plus one tick period older than the relay.
C2_RelayedVelocityFresh ==
    lastMove.src = "relay" =>
        /\ lastMove.by >= 1
        /\ lastMove.tby = lastMove.by
        /\ lastMove.stamp > 0
        /\ lastMove.at - lastMove.stamp <= timeout_s + interval

\* C2 witness: a velocity relayed at the largest age the timeout test admits
C2_Witness ==
    /\ lastMove.src = "relay"
    /\ lastMove.v = <<1, 0, 2>>
    /\ lastMove.at - lastMove.stamp = timeout_s

\* C3 (as claimed).  Once a stop command has been handled and the movement
\* loop is back in its sleep with nothing stored to relay, the last move call
\* the robot received is move(0,0,0).
C3_StopConvergesToZero ==
    (/\ hist.latest.epi = "stop"
     /\ cmd_pc \in {"poll", "send"}
     /\ wd_pc = "sleep"
     /\ last_cmd_time = 0
     /\ lastMove.ok)
    => lastMove.v = <<0, 0, 0>>

\* the time.monotonic() value of the tick the movement loop is sleeping after
TickTime == wake_at - interval

\* C4 (as claimed).  No relayed velocity is older than the most recent
\* SetVelocity that completed before the move call.
C4_RefreshAsClaimed ==
    (lastMove.src = "relay" /\ lastMove.ok /\ lastMove.latest.epi = "set")
    => lastMove.v = lastMove.latest.v

\* C4 (amended).  Every tick whose snapshot holds an unexpired command calls
\* move exactly once, with the velocity of the most recent SetVelocity that
\* completed before that tick's snapshot; no tick calls move twice.
C4_RefreshFromSnapshot ==
    /\ hist.tickMoves <= 1
    /\ (wd_pc = "sleep" /\ snap.last_t > 0 /\ TickTime - snap.last_t <= timeout_s)
       => /\ hist.tickMoves = 1
          /\ snap.latest.epi = "set"
          /\ snap.wr.vx = snap.latest.by
          /\ snap.last_t = snap.latest.at
          /\ hist.tickV = snap.latest.v

\* C4 witness: a SetVelocity completed between a tick's snapshot and its move
\* call, and the tick relayed the velocity of the snapshot
C4_Witness ==
    /\ wd_pc = "sleep"
    /\ lastMove.src = "relay"
    /\ lastMove.at = TickTime
    /\ snap.latest.by = 1
    /\ lastMove.latest.epi = "set"
    /\ lastMove.latest.by = 2
    /\ lastMove.v # lastMove.latest.v

\* C5 (as claimed).  However many stop commands follow one another with no
\* SetVelocity in between, the robot gets exactly one move(0,0,0) for them.
C5_StopIdempotent ==
    hist.stops >= 1 => hist.stopZeros <= 1

\* C6 (as claimed).  A tick whose snapshot is taken after Stop() makes no
\* capability call; a tick whose snapshot is taken after SetVelocity(0,0,0)
\* and within the timeout calls move(0,0,0), and once that command has timed
\* out exactly one timeout zero has been sent.
C6_StopVersusZeroVelocity ==
    /\ (wd_pc = "sleep" /\ snap.latest.epi = "stop") => hist.tickMoves = 0
    /\ (/\ wd_pc = "sleep"
        /\ snap.latest.epi = "set"
        /\ snap.latest.v = <<0, 0, 0>>
        /\ TickTime - snap.latest.at <= timeout_s)
       => (hist.tickMoves = 1 /\ hist.tickV = <<0, 0, 0>>)
    /\ (Silence /\ hist.latest.v = <<0, 0, 0>>)
       => /\ hist.zeros <= 1
          /\ clock - hist.latest.at > timeout_s + interval => hist.zeros = 1

\* C7 (as claimed).  No failing move call ends the movement loop.
C7_LoopSurvivesMoveFailure ==
    wd_pc # "dead"

\* C8.  No torn reads: the four values of a snapshot were written by one and
\* the same call, so a relayed (vx, vy, vyaw) is the triple of one
\* set_velocity call and the timeout test uses that call's timestamp.
C8_NoTornReads ==
    /\ wd_pc \in {"decide", "zero_move", "relay"}
       => /\ snap.wr.vy = snap.wr.vx
          /\ snap.wr.vyaw = snap.wr.vx
          /\ snap.wr.t = snap.wr.vx
    /\ lastMove.src \in {"relay", "timeout"}
       => (lastMove.by >= 1 /\ lastMove.tby = lastMove.by)
    /\ lastMove.src = "relay" => lastMove.v \in Velocities

\* C8 witness: a snapshot in progress holds the lock while a set_velocity with
\* another velocity waits for it
C8_Witness ==
    /\ wd_pc = "snap2"
    /\ lock = "wd"
    /\ cmd_pc = "set_vx"
    /\ snap.wr.vx = 1
    /\ args # <<snap.vx, snap.vy, snap.vyaw>>

\* the positions of the cmd-handler thread between recv and send
InHandler ==
    {"set_vx", "set_vy", "set_vyaw", "set_t",
     "stop_vx", "stop_vy", "stop_vyaw", "stop_t", "stop_move", "send"}
    \cup HandlerOf

\* C9.  Request/response discipline: a request is received only when every
\* earlier one has been answered, and a received request is on its way to
\* its one reply, also when decoding or the handler raised.
C9_OneReplyPerRequest ==
    /\ cmd_pc = "poll" => nsent = nrecv
    /\ cmd_pc # "poll" => (cmd_pc \in InHandler /\ nsent = nrecv - 1)

\* C9 witness: the reply to a stop whose move raised is about to be sent,
\* after an earlier request was answered
C9_Witness ==
    /\ cmd_pc = "send"
    /\ response = make_response(FALSE, MoveError)
    /\ nrecv = 2
    /\ nsent = 1

\* the texts that are not a JSON object
Undecodable(r) == r.kind \in {"notjson", "array"}

\* C10 (as claimed).  An undecodable request is answered
\* {ok: false, msg: "invalid request"}.
C10_InvalidRequestAsClaimed ==
    (cmd_pc = "send" /\ Undecodable(raw))
    => response = make_response(FALSE, "invalid request")

\* C10 (amended).  An undecodable request is answered ok:false with the text
\* of the decoding exception as msg; receiving and answering it makes no
\* capability call and leaves the watchdog state unchanged, and the thread is
\* back at its poll afterwards.
C10_UndecodableRequest ==
    [][/\ (cmd_pc = "poll" /\ cmd_pc' # "poll" /\ Undecodable(raw'))
          => /\ cmd_pc' = "send"
             /\ response'.ok = FALSE
             /\ response'.msg \in {JSONDecodeErrorText, ListAttributeErrorText}
             /\ UNCHANGED <<shared, lastMove>>
       /\ (cmd_pc = "send" /\ Undecodable(raw) /\ cmd_pc' # "send")
          => /\ cmd_pc' = "poll"
             /\ nsent' = nsent + 1
             /\ UNCHANGED <<shared, lastMove>>]_vars

\* C10 witness: after an undecodable request was answered, the next request
\* is served normally
C10_Witness ==
    /\ hist.prevBad
    /\ cmd_pc = "send"
    /\ response = make_response(TRUE, "velocity updated")

\* the cmd of a request, "" for a text that is no JSON object or has none
Cmd(r) == IF r.kind = "object" THEN Get(r.obj, "cmd", "") ELSE ""

\* the positions of the cmd-handler thread inside MovementLoop.stop
StopPositions == {"stop_vx", "stop_vy", "stop_vyaw", "stop_t"}

\* C11.  A stop command first completes the watchdog's stop(), which leaves
\* the stored velocity zero and the timestamp at the inactive value 0, and
\* then makes exactly one direct move(0,0,0) call: no SDK call is made while
\* stop() runs, the call can be made whatever the move-loop thread is doing,
\* and when the reply is sent it is the only SDK call the handler has made.
C11_StopThenDirectMove ==
    /\ cmd_pc \in StopPositions => hist.sdk = <<>>
    /\ cmd_pc = "stop_move"
       => /\ hist.sdk = <<>>
          /\ vx = 0 /\ vy = 0 /\ vyaw = 0
          /\ last_cmd_time = 0
          /\ hist.latest.epi = "stop"
          /\ hist.latest.by = nrecv
          /\ ENABLED HandleStopMove
    /\ (cmd_pc = "send" /\ Cmd(raw) = "stop")
       => /\ Len(hist.sdk) = 1
          /\ hist.sdk[1].fn = "Move"
          /\ hist.sdk[1].args = <<0, 0, 0>>
          /\ hist.latest.epi = "stop"
          /\ hist.latest.by = nrecv

\* C11 witness: the move-loop thread has terminated, so no tick will follow,
\* and the stop command has delivered its move(0,0,0) to the robot
C11_Witness ==
    /\ wd_pc = "dead"
    /\ cmd_pc = "send"
    /\ Cmd(raw) = "stop"
    /\ response = make_response(TRUE, "stopped")
    /\ lastMove.src = "stop"
    /\ lastMove.ok
    /\ lastMove.v = <<0, 0, 0>>

\* the params of a request that is a JSON object, {} when it has none
Params(r) == Get(r.obj, "params", JMap(<<>>))

\* the components of a move request: the value sent, 0.0 for a missing one
MoveValues(r) ==
    <<Get(Params(r).m, "vx", JNum(0)), Get(Params(r).m, "vy", JNum(0)),
      Get(Params(r).m, "vyaw", JNum(0))>>

\* a move request _handle_move can carry out: params is a mapping and float
\* accepts each component
MoveWellFormed(r) ==
    /\ Params(r).t = "map"
    /\ \A i \in 1..3 : CanFloat(MoveValues(r)[i])

\* the float-coerced (vx, vy, vyaw) of a well-formed move request
MoveVelocity(r) == [i \in 1..3 |-> float(MoveValues(r)[i])]

\* the positions of the cmd-handler thread inside MovementLoop.set_velocity
SetPositions == {"set_vx", "set_vy", "set_vyaw", "set_t"}

\* C12 (as claimed).  A move command is always answered ok:true, whatever
\* its params are.
C12_MoveAlwaysOk ==
    (cmd_pc = "send" /\ Cmd(raw) = "move") => response.ok

\* C12 (amended).  A move command whose params is a mapping with components
\* float() accepts is answered ok:true after set_velocity has been called
\* with the coerced (vx, vy, vyaw), 0.0 standing for a missing component,
\* and without any SDK call; a move command with other params is answered
\* ok:false and set_velocity is not called for it.
C12_MoveForwardsCoerced ==
    /\ cmd_pc \in SetPositions
       => (Cmd(raw) = "move" /\ MoveWellFormed(raw) /\ args = MoveVelocity(raw))
    /\ (cmd_pc = "send" /\ Cmd(raw) = "move")
       => /\ hist.sdk = <<>>
          /\ IF MoveWellFormed(raw)
             THEN /\ response = make_response(TRUE, "velocity updated")
                  /\ hist.latest.epi = "set"
                  /\ hist.latest.by = nrecv
                  /\ hist.latest.v = MoveVelocity(raw)
                  /\ <<vx, vy, vyaw>> = MoveVelocity(raw)
                  /\ last_cmd_time = hist.latest.at
             ELSE /\ response.ok = FALSE
                  /\ response.msg # ""
                  /\ hist.latest.by # nrecv

\* C12 witness: {"vx": "2", "vyaw": true} has reached the watchdog as
\* (2.0, 0.0, 1.0)
C12_Witness ==
    /\ cmd_pc = "send"
    /\ raw = RequestWith("move", JMap([vx |-> JStr("2"), vyaw |-> JBool(TRUE)]))
    /\ response = make_response(TRUE, "velocity updated")
    /\ <<vx, vy, vyaw>> = <<2, 0, 1>>
    /\ last_cmd_time = clock

\* the name of an action request, "" when it has none
ActionName(r) == Get(Params(r).m, "name", JStr(""))

\* the SDK call of the request in hand, or of the previous one, raised
SdkRaised(log) == log # <<>> /\ log[Len(log)].raised

\* C13.  When the SDK method of a registered action raises, the handler
\* answers ok:false with "<name> failed: <error text>" after that one call;
\* the cmd-handler thread goes on: the reply is sent, and the thread is back
\* at its poll, where the next request can be received.
C13_ActionErrorReported ==
    /\ (cmd_pc = "send" /\ Cmd(raw) = "action" /\ SdkRaised(hist.sdk))
       => /\ Len(hist.sdk) = 1
          /\ hist.sdk[1].fn = RegistryEntry(ActionName(raw).s).method
          /\ response = make_response(FALSE, ActionName(raw).s \o " failed: "
                                              \o SdkError)
          /\ ENABLED Send
    /\ SdkRaised(hist.prevSdk)
       => /\ nsent >= 1
          /\ cmd_pc \in {"poll"} \cup InHandler
          /\ (cmd_pc = "poll" /\ nrecv < MaxRequests) => ENABLED RecvAny

\* C13 witness: after "sit" has failed in the SDK and was answered ok:false,
\* a status request has been served
C13_Witness ==
    /\ Len(hist.prevSdk) = 1
    /\ hist.prevSdk[1].fn = "Sit"
    /\ hist.prevSdk[1].raised
    /\ nsent = 1
    /\ cmd_pc = "send"
    /\ Cmd(raw) = "status"
    /\ response.ok

\* an action request whose params is a mapping and whose name is no key of
\* the registry
Unregistered(r) ==
    /\ Cmd(r) = "action"
    /\ Params(r).t = "map"
    /\ \A i \in DOMAIN ACTION_REGISTRY : ActionName(r) # JStr(ACTION_REGISTRY[i].name)

\* C14 (as claimed).  An action command whose name is not in the registry
\* is answered ok:false with msg "unknown action: <name>".
C14_UnknownActionAsClaimed ==
    (cmd_pc = "send" /\ Unregistered(raw))
    => response = make_response(FALSE, "unknown action: " \o str(ActionName(raw)))

\* C14 (amended).  An action command whose name is not in the registry is
\* answered ok:false without any SDK call: with msg "unknown action: <name>"
\* when the name is a string, a number, a boolean or null (a missing name
\* being ""), and with the text of the TypeError of the lookup when the name
\* is an array or an object.
C14_UnknownActionReported ==
    (cmd_pc = "send" /\ Unregistered(raw))
    => /\ hist.sdk = <<>>
       /\ response =
            IF ActionName(raw).t \in {"list", "map"}
            THEN make_response(FALSE, "unhashable type: '"
                                      \o TypeName(ActionName(raw)) \o "'")
            ELSE make_response(FALSE, "unknown action: " \o str(ActionName(raw)))

\* C14 witness: an action request without a name is about to be answered
C14_Witness ==
    /\ cmd_pc = "send"
    /\ raw = Request("action")
    /\ response = make_response(FALSE, "unknown action: ")
    /\ hist.sdk = <<>>

\* the commands _dispatch has a branch for, lines 60-75
SupportedCommands ==
    {"action", "move", "stop", "obstacle_avoidance", "speed_level", "light",
     "list_actions", "status"}

\* a JSON object whose cmd _dispatch has no branch for
UnknownCmd(r) == r.kind = "object" /\ Cmd(r) \notin SupportedCommands

\* C15.  A request whose cmd is none of the supported commands is answered
\* ok:false with msg "unknown command: <cmd>" in the step that receives it:
\* no handler runs, no SDK call is made, and the watchdog's velocity state,
\* the robot's settings and the record of move calls are what they were,
\* also after the reply has been sent.
C15_UnknownCommand ==
    [][/\ (cmd_pc = "poll" /\ cmd_pc' # "poll" /\ UnknownCmd(raw'))
          => /\ cmd_pc' = "send"
             /\ response' = make_response(FALSE, "unknown command: " \o Cmd(raw'))
             /\ hist'.sdk = <<>>
             /\ UNCHANGED <<shared, robot, lastMove>>
       /\ (cmd_pc = "send" /\ UnknownCmd(raw) /\ cmd_pc' # "send")
          => /\ cmd_pc' = "poll"
             /\ nsent' = nsent + 1
             /\ UNCHANGED <<shared, robot, lastMove>>]_vars

\* C15 witness: "frobnicate" is about to be answered while the watchdog holds
\* the velocity of an earlier move command
C15_Witness ==
    /\ cmd_pc = "send"
    /\ Cmd(raw) = "frobnicate"
    /\ response = make_response(FALSE, "unknown command: frobnicate")
    /\ <<vx, vy, vyaw>> = <<1, 0, 2>>
    /\ last_cmd_time > 0

\* the level of a speed_level request, 1 when it has none
RequestedLevel(r) == Get(Params(r).m, "level", JNum(1))

\* a speed_level request whose level is an integer
IntegerLevel(r) ==
    /\ Cmd(r) = "speed_level"
    /\ Params(r).t = "map"
    /\ RequestedLevel(r).t = "num"

\* the level of the valid range 1..3 nearest to n
Nearest(n) == IF n < 1 THEN 1 ELSE IF n > 3 THEN 3 ELSE n

\* C16 (as claimed).  For every integer level of a speed_level command the
\* SDK is called with the level clamped to 1..3, the stored level, which
\* status reports, is within 1..3, and the request is answered ok:true.
C16_SpeedLevelAsClaimed ==
    /\ robot.speed_level \in 1..3
    /\ (cmd_pc = "send" /\ IntegerLevel(raw))
       => /\ Len(hist.sdk) = 1
          /\ hist.sdk[1].fn = "SpeedLevel"
          /\ hist.sdk[1].args = <<Nearest(RequestedLevel(raw).n)>>
          /\ response.ok

\* C16 (amended).  For every integer level of a speed_level command the SDK
\* is called once, with the level clamped to 1..3, and the clamped level is
\* stored; the request is answered ok:true with the clamped level when that
\* call returns and ok:false with its error text when it raises; the level
\* status reports is within 1..3 after any sequence of commands.
C16_SpeedLevelClamped ==
    /\ robot.speed_level \in 1..3
    /\ (cmd_pc = "send" /\ Cmd(raw) = "status")
       => response.data.speed_level \in 1..3
    /\ (cmd_pc = "send" /\ IntegerLevel(raw))
       => /\ Len(hist.sdk) = 1
          /\ hist.sdk[1].fn = "SpeedLevel"
          /\ hist.sdk[1].args = <<Nearest(RequestedLevel(raw).n)>>
          /\ robot.speed_level = Nearest(RequestedLevel(raw).n)
          /\ response =
               IF hist.sdk[1].raised
               THEN make_response(FALSE, SdkError)
               ELSE make_response(TRUE, "speed level set to "
                                        \o ToString(Nearest(RequestedLevel(raw).n)))

\* C16 witness: level 99 has been forwarded as 3, and now level -1 has been
\* forwarded as 1 and is about to be answered ok:true
C16_Witness ==
    /\ Len(hist.prevSdk) = 1
    /\ hist.prevSdk[1].fn = "SpeedLevel"
    /\ hist.prevSdk[1].args = <<3>>
    /\ cmd_pc = "send"
    /\ raw = RequestWith("speed_level", JMap([level |-> JNum(-1)]))
    /\ hist.sdk = <<SdkCall("SpeedLevel", <<1>>, FALSE)>>
    /\ robot.speed_level = 1
    /\ response = make_response(TRUE, "speed level set to 1")

\* C17.  status is a pure read: receiving it, handling it and answering it
\* leave the watchdog's state, the robot's obstacle-avoidance, speed-level
\* and light state and the record of move calls unchanged, no SDK call is
\* made, and the response is ok:true with exactly the three current values.
C17_StatusPureRead ==
    [][/\ (cmd_pc = "poll" /\ cmd_pc' # "poll" /\ Cmd(raw') = "status")
          => /\ cmd_pc' = "status"
             /\ UNCHANGED <<shared, robot, lastMove>>
       /\ (cmd_pc = "status" /\ cmd_pc' # "status")
          => /\ cmd_pc' = "send"
             /\ response'.ok
             /\ response'.msg = "ok"
             /\ response'.data.obstacle_avoidance = robot.obstacle_avoidance_enabled
             /\ response'.data.speed_level = robot.speed_level
             /\ response'.data.light_on = robot.light_on
             /\ DOMAIN response'.data = {"obstacle_avoidance", "speed_level", "light_on"}
             /\ hist'.sdk = <<>>
             /\ UNCHANGED <<shared, robot, lastMove>>
       /\ (cmd_pc = "send" /\ Cmd(raw) = "status" /\ cmd_pc' # "send")
          => /\ cmd_pc' = "poll"
             /\ UNCHANGED <<shared, robot, lastMove>>]_vars

\* C17 witness: after the light has been turned on, status is about to
\* report light_on true, and the light is still on
C17_Witness ==
    /\ cmd_pc = "send"
    /\ Cmd(raw) = "status"
    /\ response.data.light_on
    /\ robot.light_on
    /\ robot.speed_level = 1

PublishedFrames == SelectSeq(nats.published, LAMBDA e : e.kind = "frame")
PublishedResponses == SelectSeq(nats.published, LAMBDA e : e.kind = "response")

\* the message in hand is a get_camera_frame command
CameraCommand == Cmd(nats.msg.data) = "get_camera_frame"

\* the frame subject the caller of the message in hand specified, "" if none
CallerSubject ==
    LET obj == nats.msg.data.obj
    IN  IF /\ "params" \in DOMAIN obj
           /\ obj.params.t = "map"
           /\ "frame_subject" \in DOMAIN obj.params.m
        THEN obj.params.m.frame_subject.s ELSE ""

\* C19.  get_camera_frame captures one frame and delivers it out-of-band:
\* the server calls get_camera_frame at most once per command; a frame is
\* published only for a get_camera_frame command that obtained one, once,
\* unchanged, on the frame subject the caller specified, and before any
\* response; the response is ok:true exactly when the frame has been
\* published, and then it carries the byte count and the subject, not the
\* frame; when no frame is obtained nothing is published on the frame
\* subject and the response is ok:false.
C19_FrameOutOfBand ==
    /\ nats.captures <= 1
    /\ Len(PublishedFrames) <= 1
    /\ ~CameraCommand => (nats.captures = 0 /\ PublishedFrames = <<>>)
    /\ PublishedFrames # <<>>
       => /\ nats.captures = 1
          /\ Truthy(nats.jpeg)
          /\ nats.published[1] = PublishedFrames[1]
          /\ PublishedFrames[1].payload = nats.jpeg
          /\ CallerSubject # "" => PublishedFrames[1].subject = CallerSubject
    /\ (CameraCommand /\ nats.pc = "reply")
       => /\ nats.captures = 1
          /\ nats.response.ok <=> PublishedFrames # <<>>
          /\ nats.response.ok <=> Truthy(nats.jpeg)
          /\ nats.response.ok
             => /\ nats.response.msg = "Camera frame captured ("
                      \o ToString(Len(nats.jpeg.b)) \o " bytes)"
                /\ DOMAIN nats.response = {"id", "ok", "msg", "frame_subject"}
                /\ nats.response.frame_subject.s = PublishedFrames[1].subject
    /\ (CameraCommand /\ PublishedResponses # <<>>)
       => /\ Len(PublishedResponses) = 1
          /\ PublishedResponses[1].payload.ok <=> PublishedFrames # <<>>

\* C19 witness: the client's get_camera_frame call has its ok:true response,
\* and the 3-byte frame was published on "go2.camera.f1" before it
C19_Witness ==
    /\ nats.client.state = "done"
    /\ nats.client.cmd = "get_camera_frame"
    /\ nats.client.result.ok
    /\ Len(nats.published) = 2
    /\ nats.published[1].kind = "frame"
    /\ nats.published[1].subject = "go2.camera.f1"
    /\ nats.published[2].kind = "response"
    /\ nats.published[2].payload.msg = "Camera frame captured (3 bytes)"

\* the message in hand is a JSON object that carries an id
CarriesId == nats.msg.data.kind = "object" /\ "id" \in DOMAIN nats.msg.data.obj

\* C20 (as claimed).  Every response to a request that carried an id echoes
\* that id, so a client that matches replies by id never ignores the reply to
\* its request.
C20_ResponseEchoesId ==
    /\ \A i \in DOMAIN PublishedResponses :
          CarriesId
          => /\ "id" \in DOMAIN PublishedResponses[i].payload
             /\ PublishedResponses[i].payload.id = nats.msg.data.obj.id
    /\ nats.client.dropped = 0

\* a value json.loads can return: no tuple and no bytes inside
RECURSIVE JsonValue(_)
JsonValue(x) ==
    CASE x.t \in {"tuple", "bytes"} -> FALSE
      [] x.t = "list" -> \A i \in DOMAIN x.l : JsonValue(x.l[i])
      [] x.t = "map" -> \A k \in DOMAIN x.m : JsonValue(x.m[k])
      [] OTHER -> TRUE

\* a valid (cmd, params) pair, a CommandRequest: cmd is a string and params
\* a mapping from strings to JSON values
ValidPair(cmd, params) == params.t = "map" /\ JsonValue(params)

Malformed(r) ==
    \/ r.kind # "object"
    \/ "cmd" \notin DOMAIN r.obj
    \/ "params" \in DOMAIN r.obj /\ r.obj.params.t # "map"

\* C22 (as claimed).  Decoding a malformed text raises a decode error; it
\* never returns a (cmd, params) pair.
C22_MalformedRejected ==
    (codec.pc = "decoded" /\ Malformed(codec.text)) => codec.out.raised

\* C23 (as claimed).  On shutdown the final move(0,0,0) is sent before the
\* robot interface is released and before any transport socket is closed, no
\* capability call follows it, and when the process exits all three loops
\* have seen their flag cleared and left.
C23_ShutdownOrder ==
    /\ sd.zero # "none" => sd.atZero = {}
    /\ sd.released => sd.zero # "none"
    /\ sd.main = "exited"
       => /\ sd.cmd = "closed" /\ sd.cam = "closed" /\ sd.mv = "exited"
          /\ sd.lateCalls = 0

\* C24 (as claimed).  When the dispatcher has closed its channel, or its
\* thread or the process has ended, every request received has had its
\* response sent.
C24_NoRequestHalfCommitted ==
    (sd.cmd \in {"closed", "dead"} \/ sd.main = "exited")
    => sd.sent = sd.received

Starved ==
    /\ relay.pc = "send"
    /\ ~SendReturns(Head(relay.pending))
    /\ \E i \in DOMAIN relay.pending : relay.conn[relay.pending[i]] = "reading"

\* C26 (as claimed).  Publisher isolation: a listener that reads no further
\* frames never holds up the delivery of a frame to the listeners that do
\* read, and a listener camera_relay has dropped is in camera_clients no
\* more and is not sent to again.
C26_PublisherIsolation ==
    /\ ~Starved
    /\ \A l \in relay.dropped :
          /\ l \notin relay.camera_clients
          /\ \A i \in DOMAIN relay.pending : relay.pending[i] # l

\* C28.  Before the first set_velocity of the process has stamped the stored
\* command the move-loop thread makes no robot.move call, on no tick and
\* however much time has passed, stop commands included.
C28_NoCallBeforeFirstSetVelocity ==
    hist.sets = 0
    => /\ lastMove.src \notin {"relay", "timeout"}
       /\ hist.tickMoves = 0
       /\ last_cmd_time = 0
       /\ wd_pc \in {"top", "snap2", "decide", "sleep"}
       /\ wd_pc = "decide" => ~Expired(snap.last_t, clock) /\ ~Active(snap.last_t)

\* C28 witness: more than the timeout and a tick have passed, a stop has
\* been handled, no set_velocity has been made and the thread is asleep
C28_Witness ==
    /\ hist.sets = 0
    /\ clock > timeout_s + interval
    /\ hist.stops >= 1
    /\ lastMove.src = "stop"
    /\ wd_pc = "sleep"

\* C29 (as claimed).  No accepted velocity is lost: a tick whose snapshot was
\* taken after the latest set_velocity completed, with no stop since and
\* within the timeout of it, relays that velocity.
C29_NoVelocityLost ==
    (/\ wd_pc = "sleep"
     /\ hist.latest.epi = "set"
     /\ snap.latest = hist.latest
     /\ TickTime - hist.latest.at <= timeout_s)
    => (hist.tickMoves = 1 /\ hist.tickV = hist.latest.v)

\* the cmd-handler thread is inside _handle_obstacle_avoidance
Blocked == cmd_pc = "obstacle_avoidance"

\* C27.  No activity blocks another: while the cmd-handler thread is inside
\* the obstacle avoidance call it does not hold the lock of the movement
\* loop, and a stored velocity command that has gone silent for longer than
\* the timeout and one tick has had its timeout move(0,0,0) called.
C27_WatchdogRunsWhileDispatcherBlocked ==
    Blocked
    => /\ lock # "cmd"
       /\ (last_cmd_time > 0 /\ clock - last_cmd_time > timeout_s + interval)
          => (lastMove.src = "timeout" /\ lastMove.stamp = last_cmd_time)

\* C27 witness: the obstacle avoidance request came in while the velocity
\* command was fresh, and with the dispatcher still inside the call the
\* movement loop has made the timeout move for that command and reset it
C27_Witness ==
    /\ Blocked
    /\ hist.latest.epi = "set"
    /\ hist.recvAt - hist.latest.at <= interval
    /\ lastMove.src = "timeout"
    /\ lastMove.ok
    /\ lastMove.latest = hist.latest
    /\ lastMove.at - hist.latest.at > timeout_s
    /\ last_cmd_time = 0

\* C30 (as claimed).  Every expired command is cleared: a tick whose
\* snapshot holds a command older than the timeout calls move(0,0,0) once
\* and resets the stored state, whatever the thread's last call was.
C30_ExpiredCommandCleared ==
    (/\ wd_pc = "sleep"
     /\ snap.last_t > 0
     /\ TickTime - snap.last_t > timeout_s)
    => /\ hist.tickMoves = 1
       /\ hist.tickV = <<0, 0, 0>>
       /\ last_cmd_time # snap.last_t

----------------------------------------------------------------------------
----------------------------------------------------------------------------
\* a move request _handle_move cannot carry out
MoveFails(r) == Cmd(r) = "move" /\ ~MoveWellFormed(r)

\* set_velocity has been applied for the request being answered with all
\* three coerced components, or no field has been written for it
AllOrNothing ==
    (cmd_pc = "send" /\ Cmd(raw) = "move") =>
        IF response.ok
        THEN /\ <<vx, vy, vyaw>> = MoveVelocity(raw)
             /\ last_cmd_time = hist.latest.at
             /\ wr = [vx |-> nrecv, vy |-> nrecv, vyaw |-> nrecv, t |-> nrecv]
        ELSE /\ MoveFails(raw)
             /\ \A f \in DOMAIN wr : wr[f] # nrecv

\* C32: no step of the cmd-handler thread that receives, handles or answers
\* a move command which fails changes the stored velocity or the stored
\* timestamp, and a move command is answered either after set_velocity has
\* stored all three coerced components or without any field written
C32_FailedMoveChangesNothing ==
    [][/\ (MoveFails(raw) \/ MoveFails(raw'))
          => UNCHANGED <<vx, vy, vyaw, last_cmd_time, wr>>
       /\ AllOrNothing']_vars

\* a move command with a component float() rejects has been answered
\* ok:false while a velocity and its timestamp are stored
C32_Witness ==
    /\ cmd_pc = "send"
    /\ raw = RequestWith("move", JMap([vx |-> JNum(1), vy |-> JStr("abc")]))
    /\ ~response.ok
    /\ <<vx, vy, vyaw>> = <<1, 0, 2>>
    /\ last_cmd_time > 0

----------------------------------------------------------------------------
\* C33: once Robot.shutdown has sent its final Move(0, 0, 0), neither the
\* move-loop thread nor the cmd-handler thread makes a robot.move call, a
\* thread whose join has timed out inside a capability call included
C33_FinalZeroIsLast ==
    sd.zero # "none" => sd.lateMoves = 0

----------------------------------------------------------------------------
\* the cmd-handler thread is answering a light command
LightAnswered(pc, r) == pc = "send" /\ Cmd(r) = "light"

\* the SetBrightness call logged last has returned code 0
ReturnedZero(log) ==
    /\ log # <<>>
    /\ log[Len(log)].fn = "SetBrightness"
    /\ "code" \in DOMAIN log[Len(log)]
    /\ log[Len(log)].code = 0

\* C34: a light command is answered ok:true exactly when its one
\* vui.SetBrightness call has returned code 0, and the light_on value that
\* status reports changes only in the step of a light command whose call has
\* returned code 0, to the value the command asked for
C34_LightFollowsCode ==
    [][/\ LightAnswered(cmd_pc', raw')
          => /\ Len(hist'.sdk) <= 1
             /\ response'.ok <=> ReturnedZero(hist'.sdk)
       /\ StatusData'.light_on # StatusData.light_on
          => /\ cmd_pc = "light" /\ LightAnswered(cmd_pc', raw')
             /\ ReturnedZero(hist'.sdk)
             /\ StatusData'.light_on = (hist'.sdk[1].args = <<10>>)]_vars

\* a light command has failed with a non-zero code while the light is on
C34_Witness ==
    /\ LightAnswered(cmd_pc, raw)
    /\ raw = RequestWith("light", JMap([on |-> JBool(FALSE)]))
    /\ Len(hist.sdk) = 1
    /\ "code" \in DOMAIN hist.sdk[1]
    /\ hist.sdk[1].code = 1
    /\ ~response.ok
    /\ robot.light_on

----------------------------------------------------------------------------
\* C35: _enable_obstacle_avoidance makes at most 50 SwitchGet calls, and it
\* assigns obstacle_avoidance_enabled = True only after one of them has
\* returned the switch on
C35_EnabledOnlyWhenConfirmed ==
    /\ oa.polls <= SWITCH_POLLS
    /\ oa.assigned => oa.confirmed

----------------------------------------------------------------------------
\* the responses the server has published on the reply subject of the
\* message it is handling, or has handled last
RepliesToMsg ==
    SelectSeq(nats.published,
              LAMBDA e : e.kind = "response" /\ e.subject = nats.msg.reply)

\* the message is a command other than get_camera_frame that handle_command
\* can decode
RegularCommand(m) ==
    m.data.kind = "object" /\ Cmd(m.data) # "get_camera_frame"

\* C36: while the server handles a message it has published no response for
\* it; once it has handled a message with a reply subject it has published
\* exactly one response, on that subject, whichever path it took; for a
\* message without a reply subject it has published no response, and it has
\* forwarded the message to the bridge if it is a regular command
C36_ExactlyOneReply ==
    /\ nats.pc # "idle" => PublishedResponses = <<>>
    /\ (nats.pc = "idle" /\ nats.msg # NoMsg) =>
          /\ PublishedResponses = RepliesToMsg
          /\ Len(RepliesToMsg) = IF nats.msg.reply = "" THEN 0 ELSE 1
          /\ RegularCommand(nats.msg) => nats.forwards = 1
          /\ ~RegularCommand(nats.msg) => nats.forwards = 0

\* a stop command published without a reply subject has been forwarded to
\* the bridge and nothing has been published for it
C36_Witness ==
    /\ nats.pc = "idle"
    /\ nats.msg = NatsMsg(Request("stop"), "")
    /\ nats.forwards = 1
    /\ nats.published = <<>>

----------------------------------------------------------------------------
\* the client is inside get_camera_frame, its command sent
AwaitingFrame == nats.client.gcf \in {"command", "frame_wait"}

\* the message the server is handling, or has handled last, is the command
\* of the client's current call
HandlingClientCall ==
    /\ nats.msg # NoMsg
    /\ nats.msg.reply = Inbox(nats.client.request_id)

\* C37: from the moment get_camera_frame has sent its command the client is
\* subscribed to the frame subject the command names, so the frame the
\* server publishes for it reaches the subscription; once the call has
\* returned the subscription is removed, and the call has returned the
\* published frame after an ok:true response, and None after a response that
\* is not ok or a timeout
C37_FrameNeverMissed ==
    /\ nats.client.gcf = "idle" => nats.client.fsub = ""
    /\ AwaitingFrame =>
          /\ nats.client.fsub = ClientFrameSubject(nats.client.calls)
          /\ (/\ nats.queue # <<>>
              /\ Head(nats.queue).reply = Inbox(nats.client.request_id)) =>
                Head(nats.queue).data.obj.params.m.frame_subject.s = nats.client.fsub
          /\ (HandlingClientCall /\ PublishedFrames # <<>>) =>
                /\ PublishedFrames[1].subject = nats.client.fsub
                /\ \/ nats.fbox = <<PublishedFrames[1].payload>>
                   \/ nats.client.frame = PublishedFrames[1].payload
    /\ nats.client.gcf = "returned" =>
          /\ nats.client.fsub = ""
          /\ nats.fbox = <<>>
          /\ nats.client.ret \in {None} \cup {f \in CameraResults : Truthy(f)}
          /\ nats.client.cmd = "get_camera_frame" =>
                /\ nats.client.ret # None => Get(nats.client.result, "ok", FALSE)
                /\ nats.client.result = ClientTimeoutResult => nats.client.ret = None

\* get_camera_frame has returned the JPEG the server published
C37_Witness ==
    /\ nats.client.gcf = "returned"
    /\ nats.client.ret = JBytes(<<255, 216, 255>>)
    /\ nats.client.fsub = ""

----------------------------------------------------------------------------
\* C38: the controller has never called send_json on a REQ socket whose last
\* request has no reply yet: a thread that is about to send holds
\* command_lock (or is inside connect) and finds the socket ready, or closed
\* after a failed _reconnect or a disconnect
C38_ReqRepAlternation ==
    /\ ctl.busySends = 0
    /\ \A t \in CtlThreads :
         ctl.pc[t] = "send" =>
            /\ ctl.sock # "awaiting"
            /\ ctl.kind[t] # "connect" => ctl.lock = t

\* a thread is about to send on the socket that has replaced one whose
\* request got no reply
C38_Witness ==
    /\ ctl.reconnects > 0
    /\ ctl.sock = "ready"
    /\ \E t \in CtlThreads : ctl.pc[t] = "send" /\ ctl.kind[t] = "move"

\* the transitions of the cycle SPINNING, STOPPING, TALKING, RISING,
\* COOLDOWN, SPINNING
CsmCycle ==
    {<<"SPINNING", "STOPPING">>, <<"STOPPING", "TALKING">>,
     <<"TALKING", "RISING">>, <<"RISING", "COOLDOWN">>,
     <<"COOLDOWN", "SPINNING">>}

\* C39: the state of the control state machine changes only along the cycle
\* SPINNING, STOPPING, TALKING, RISING, COOLDOWN, SPINNING; it enters
\* STOPPING only when the frame at hand completes FACE_CONFIRM_FRAMES face
\* frames in a row; a frame received in another state than SPINNING changes
\* neither the state nor the face count and publishes nothing; and the
\* keep-alive loop publishes only spin, and only in the state SPINNING
C39_CycleOnly ==
    [][/\ csm'.state # csm.state => <<csm.state, csm'.state>> \in CsmCycle
       /\ (csm.state = "SPINNING" /\ csm'.state = "STOPPING")
            => /\ csm'.frames = csm.frames + 1
               /\ csm'.streak >= FACE_CONFIRM_FRAMES
       /\ (csm'.frames # csm.frames /\ csm.state # "SPINNING")
            => /\ csm'.state = csm.state
               /\ csm'.face_count = csm.face_count
               /\ csm'.last = csm.last
       /\ (csm'.last # csm.last /\ csm'.last.by = "keepalive")
            => /\ csm.state = "SPINNING"
               /\ csm'.last.cmd = "spin"
               /\ csm'.state = csm.state]_vars

\* C39 witness: a whole cycle has been run (spin was published by the state
\* machine) and a later frame has arrived
C39_Witness ==
    /\ csm.last.cmd = "spin"
    /\ csm.last.by = "fsm"
    /\ csm.state = "SPINNING"
    /\ csm.frames > FACE_CONFIRM_FRAMES

\* C40: when no coroutine of the state machine is running any more, the
\* machine is back in SPINNING: a run of STOPPING, TALKING, RISING, COOLDOWN
\* never ends anywhere else, whatever talkToHuman does
C40_EveryRunEnds ==
    (csm.started /\ csm.running /\ csm.pc = "none") => csm.state = "SPINNING"

====
